---- MODULE Spec2Model ----
(***************************************************************************)
(* A model of nanobot's concurrent runtime: the message bus                *)
(* (nanobot/bus/queue.py), the agent loop and its consolidation scheduler  *)
(* (nanobot/agent/loop.py).                                                *)
(*                                                                         *)
(* The specifications share the variables; the first three are            *)
(*   SpecBus   the MessageBus driven as tests/test_message_buffer.py       *)
(*             drives it: a consumer that completes each turn it consumed; *)
(*   Spec      AgentLoop.run() and process_direct() over the bus;          *)
(*   SpecCons  sessions, turns, /new and the background consolidation      *)
(*             tasks of AgentLoop.                                         *)
(* The others (SpecTrigger, SpecHistory, SpecTurn, SpecStrip, SpecAck,     *)
(* SpecChat, SpecMerge, SpecCoerce, SpecMcp, SpecRun, SpecPreflight,       *)
(* SpecSystem, SpecMessageTool, SpecAccount, SpecStartMcp) are introduced  *)
(* where they are defined.                                                 *)
(* Python's None is "" for a string, <<>> for an object (a sequence of     *)
(* length 0 or 1 holds an optional record).                                *)
(***************************************************************************)
EXTENDS Naturals, Integers, Sequences, FiniteSets, Bags, TLC

VARIABLES
    inbound,    \* MessageBus.inbound: the queue, head first
    active,     \* MessageBus._active_inbound_session ("" is None)
    buffer,     \* MessageBus._inbound_collect_buffer: session key -> list
    now,        \* the clock that stamps a published message
    cur,        \* the message the consumer holds: <<>> or <<msg>>
    turnLog,    \* history: what was published for cur's session since cur was consumed
    direct,     \* the process_direct calls in flight: a bag of session keys
    outbound,   \* MessageBus.outbound: the queue, head first
    cfg,        \* AgentLoop's memory_window and compression_window_size
    objs,       \* the Session objects in memory: object id -> <<>> or <<session>>
    cache,      \* SessionManager's cache: session key -> object id (0: none)
    disk,       \* the persisted sessions: session key -> <<>> or <<session>>
    turn,       \* the turn run() has in flight: <<>> or <<[key, obj]>>
    tasks,      \* the consolidation tasks created and not yet ended: a bag
    running,    \* AgentLoop._consolidation_running_keys
    pending,    \* AgentLoop._consolidation_pending_keys
    served,     \* the numbers of turns, /new commands and LLM calls handled so far
    asked,      \* history: per key, the requests made during the run in flight (0, 1, 2: two or more)
    history,    \* the number of entries appended to memory/HISTORY.md
    longTerm,   \* the text of memory/MEMORY.md
    waiters,    \* MessageBus._outbound_waiters: request id -> future (0: no entry)
    futures,    \* the futures create_outbound_waiter made, oldest first
    sends,      \* the _publish_outbound_with_ack calls that wait for their future
    llm,        \* LiteLLMProvider: default_stream, and the chat call in flight
    mcp,        \* MCPManager: _handles, the server tasks, and the start or stop in flight
    agent,      \* AgentLoop._running, and where run() is
    op          \* history: the last operation and its argument

busVars == <<inbound, active, buffer, now>>
busSide == <<inbound, active, buffer, cur, turnLog, direct, outbound>>
agentVars == <<direct, outbound>>
storeVars == <<objs, cache, disk>>
extVars == <<waiters, futures, sends, llm, mcp, agent>>
consVars == <<cfg, objs, cache, disk, turn, tasks, running, pending, served, asked, history, longTerm,
              extVars>>
vars == <<inbound, active, buffer, now, cur, turnLog, direct, outbound,
          cfg, objs, cache, disk, turn, tasks, running, pending, served, asked, history, longTerm,
          waiters, futures, sends, llm, mcp, agent, op>>

----------------------------------------------------------------------------
(* Bounds of the model *)

MaxPublish == 3
MaxDirect == 2
MaxClock == 1
MaxTurns == 3
MaxSessions == 1
MaxNew == 1
MaxHistory == 1

----------------------------------------------------------------------------
(* Inbound messages *)

Channels == {"telegram"}
ChatIds == {"c1", "c2"}
SenderIds == {"alice", "bob"}
Contents == {"one", "two"}
MediaLists == {<<>>, <<"a.png">>}

\* InboundMessage.session_key
SessionKey(msg) == msg.channel \o ":" \o msg.chat_id

SessionKeys == {c \o ":" \o i : c \in Channels, i \in ChatIds}

\* A session key has at most two Session objects in memory: the cached one and
\* the one a consolidation task still holds after /new dropped it from the cache.
ObjIds == 1..(2 * Cardinality(SessionKeys))

\* a LiteLLMProvider that no chat call has reached: calls lists the modes of
\* the transport calls made, errors the exceptions they raised, result is <<>>
\* or the LLMResponse returned
NoChat(default_stream) ==
    [default_stream |-> default_stream, pc |-> "idle", calls |-> <<>>, errors |-> <<>>,
     result |-> <<>>]

\* the MCP servers of the configuration, in the order of the dict
MaxServers == 2
McpServers == 1..MaxServers

\* an MCPManager before __init__: no server is configured yet
NoManager ==
    [n |-> 0, pc |-> "none", i |-> 0, handles |-> <<>>, all_tools |-> <<>>,
     task |-> [k \in McpServers |-> "none"],
     ready |-> [k \in McpServers |-> "none"],
     tools |-> [k \in McpServers |-> <<>>],
     stop_event |-> [k \in McpServers |-> FALSE],
     cancel |-> [k \in McpServers |-> FALSE],
     visited |-> <<>>, cancelled |-> 0]

\* an AgentLoop whose run() has not been called: _running, where run() is,
\* the number of messages published so far, and as history where run() was
\* when stop() was called ("": not called) and the number of turns begun
\* since
NoRun ==
    [running |-> FALSE, pc |-> "idle", arrivals |-> 0, stop_at |-> "", after |-> 0]

\* the request ids of outbound messages: "out_" and what uuid4 gives
RequestIds == {"out_1", "out_2"}

\* datetime.isoformat() of the clock value t
IsoFormat(t) == "2026-01-01T00:00:0" \o ToString(t)

\* InboundMessage(...) as a channel builds it at time t
NewInbound(ch, sender, chat, content, media, t) ==
    [channel |-> ch, sender_id |-> sender, chat_id |-> chat, content |-> content,
     timestamp |-> [kind |-> "datetime", t |-> t], media |-> media,
     metadata |-> [message_id |-> t]]

\* MessageBus._timestamp_to_text
TimestampToText(value) ==
    IF value.kind = "datetime" THEN IsoFormat(value.t) ELSE value.s

RECURSIVE JoinWith(_, _)
\* sep.join(parts)
JoinWith(sep, parts) ==
    IF parts = <<>> THEN ""
    ELSE IF Len(parts) = 1 THEN parts[1]
    ELSE parts[1] \o sep \o JoinWith(sep, Tail(parts))

RECURSIVE Flatten(_)
\* [item for part in parts for item in part]
Flatten(parts) ==
    IF parts = <<>> THEN <<>> ELSE parts[1] \o Flatten(Tail(parts))

\* dict d with key k set to v
DictSet(d, k, v) == [x \in DOMAIN d \cup {k} |-> IF x = k THEN v ELSE d[x]]

\* Mutant: the "[sender] " prefix is applied to a single message too.
MergeBufferedMessagesAlwaysPrefixed(messages) ==
    LET first == messages[1]
        merged_content ==
            JoinWith("\n\n", [i \in 1..Len(messages) |->
                "[" \o messages[i].sender_id \o "] " \o messages[i].content])
        merged_media == Flatten([i \in 1..Len(messages) |-> messages[i].media])
        collected_messages ==
            [i \in 1..Len(messages) |->
                [sender_id |-> messages[i].sender_id,
                 content |-> messages[i].content,
                 timestamp |-> TimestampToText(messages[i].timestamp),
                 media |-> messages[i].media,
                 metadata |-> messages[i].metadata]]
        merged_metadata ==
            DictSet(DictSet(first.metadata, "collected_messages", collected_messages),
                    "collected_count", Len(messages))
    IN  [channel |-> first.channel, sender_id |-> first.sender_id,
         chat_id |-> first.chat_id, content |-> merged_content,
         timestamp |-> first.timestamp, media |-> merged_media,
         metadata |-> merged_metadata]

\* MessageBus._merge_buffered_messages
MergeBufferedMessages(messages) ==
    LET first == messages[1]
        merged_content ==
            IF Len(messages) = 1 THEN messages[1].content
            ELSE JoinWith("\n\n", [i \in 1..Len(messages) |->
                    "[" \o messages[i].sender_id \o "] " \o messages[i].content])
        merged_media == Flatten([i \in 1..Len(messages) |-> messages[i].media])
        collected_messages ==
            [i \in 1..Len(messages) |->
                [sender_id |-> messages[i].sender_id,
                 content |-> messages[i].content,
                 timestamp |-> TimestampToText(messages[i].timestamp),
                 media |-> messages[i].media,
                 metadata |-> messages[i].metadata]]
        merged_metadata ==
            DictSet(DictSet(first.metadata, "collected_messages", collected_messages),
                    "collected_count", Len(messages))
    IN  [channel |-> first.channel, sender_id |-> first.sender_id,
         chat_id |-> first.chat_id, content |-> merged_content,
         timestamp |-> first.timestamp, media |-> merged_media,
         metadata |-> merged_metadata]

----------------------------------------------------------------------------
(* MessageBus operations on the bus state. Each body runs without a       *)
(* suspension once it holds _inbound_collect_lock, so each is one step.   *)

\* Mutant: the session test is dropped, every publish during a turn is buffered.
BusPublishBuffersAnySession(msg) ==
    /\ IF active # ""
       THEN /\ buffer' = [buffer EXCEPT ![SessionKey(msg)] = Append(@, msg)]
            /\ UNCHANGED inbound
       ELSE /\ inbound' = Append(inbound, msg)
            /\ UNCHANGED buffer
    /\ UNCHANGED active

\* Mutant: the buffering branch is missing, every publish is enqueued.
BusPublishNeverBuffers(msg) ==
    /\ inbound' = Append(inbound, msg)
    /\ UNCHANGED <<buffer, active>>

\* MessageBus.publish_inbound
BusPublish(msg) ==
    /\ IF active # "" /\ SessionKey(msg) = active
       THEN /\ buffer' = [buffer EXCEPT ![SessionKey(msg)] = Append(@, msg)]
            /\ UNCHANGED inbound
       ELSE /\ inbound' = Append(inbound, msg)
            /\ UNCHANGED buffer
    /\ UNCHANGED active

\* MessageBus.consume_inbound, once the queue holds a message
BusConsume ==
    /\ inbound # <<>>
    /\ inbound' = Tail(inbound)
    /\ active' = SessionKey(Head(inbound))
    /\ UNCHANGED buffer

\* Mutant: the merged follow-up is put at the head of the queue.
BusCompleteAtHead(key) ==
    IF active # key
    THEN UNCHANGED <<inbound, active, buffer>>
    ELSE /\ inbound' = IF buffer[key] # <<>>
                       THEN <<MergeBufferedMessages(buffer[key])>> \o inbound
                       ELSE inbound
         /\ buffer' = [buffer EXCEPT ![key] = <<>>]
         /\ active' = ""

\* Mutant: only the first buffered message goes into the merged follow-up.
BusCompleteMergesFirstOnly(key) ==
    IF active # key
    THEN UNCHANGED <<inbound, active, buffer>>
    ELSE /\ inbound' = IF buffer[key] # <<>>
                       THEN Append(inbound, MergeBufferedMessages(<<buffer[key][1]>>))
                       ELSE inbound
         /\ buffer' = [buffer EXCEPT ![key] = <<>>]
         /\ active' = ""

\* MessageBus.complete_inbound_turn(msg), which reads msg.session_key only
BusComplete(key) ==
    IF active # key
    THEN UNCHANGED <<inbound, active, buffer>>
    ELSE /\ inbound' = IF buffer[key] # <<>>
                       THEN Append(inbound, MergeBufferedMessages(buffer[key]))
                       ELSE inbound
         /\ buffer' = [buffer EXCEPT ![key] = <<>>]
         /\ active' = ""

----------------------------------------------------------------------------
(* SpecBus: channels publish at any time; the consumer consumes a message, *)
(* holds it for the turn and completes that turn before it consumes again. *)

NoArg == <<>>

\* AgentLoop.__init__'s defaults for memory_window, compression_window_size and
\* max_iterations
DefaultConfig == [memory_window |-> 50, compression_window_size |-> 12, max_iterations |-> 50]

\* MessageBus.__init__, and no turn in flight
BusIdle ==
    /\ inbound = <<>>
    /\ active = ""
    /\ buffer = [k \in SessionKeys |-> <<>>]
    /\ cur = <<>>
    /\ turnLog = <<>>
    /\ direct = EmptyBag
    /\ outbound = <<>>

\* AgentLoop.__init__ on an empty workspace: no session, no task, no memory
ConsIdle ==
    /\ objs = [i \in ObjIds |-> <<>>]
    /\ cache = [k \in SessionKeys |-> 0]
    /\ disk = [k \in SessionKeys |-> <<>>]
    /\ turn = <<>>
    /\ tasks = EmptyBag
    /\ running = {}
    /\ pending = {}
    /\ served = [turns |-> 0, news |-> 0, calls |-> 0]
    /\ asked = [k \in SessionKeys |-> 0]
    /\ history = 0
    /\ longTerm = ""
    /\ waiters = [r \in RequestIds |-> 0]
    /\ futures = <<>>
    /\ sends = {}
    /\ llm = NoChat(TRUE)
    /\ mcp = NoManager
    /\ agent = NoRun

InitBus ==
    /\ BusIdle
    /\ ConsIdle
    /\ now = 0
    /\ cfg = DefaultConfig
    /\ op = [name |-> "init", key |-> "", msg |-> NoArg]

PublishInbound ==
    /\ now < MaxPublish
    /\ \E ch \in Channels, s \in SenderIds, c \in ChatIds, t \in Contents, md \in MediaLists :
         LET msg == NewInbound(ch, s, c, t, md, now)
         IN  /\ BusPublish(msg)
             /\ turnLog' = IF cur # <<>> /\ SessionKey(cur[1]) = SessionKey(msg)
                           THEN Append(turnLog, msg) ELSE turnLog
             /\ op' = [name |-> "publish_inbound", key |-> SessionKey(msg), msg |-> <<msg>>]
    /\ now' = now + 1
    /\ UNCHANGED <<cur, agentVars, consVars>>

ConsumeInbound ==
    /\ cur = <<>>
    /\ BusConsume
    /\ cur' = <<Head(inbound)>>
    /\ turnLog' = <<>>
    /\ op' = [name |-> "consume_inbound", key |-> SessionKey(Head(inbound)),
              msg |-> <<Head(inbound)>>]
    /\ UNCHANGED <<now, agentVars, consVars>>

CompleteInboundTurn ==
    /\ cur # <<>>
    /\ BusComplete(SessionKey(cur[1]))
    /\ cur' = <<>>
    /\ turnLog' = <<>>
    /\ op' = [name |-> "complete_inbound_turn", key |-> SessionKey(cur[1]), msg |-> cur]
    /\ UNCHANGED <<now, agentVars, consVars>>

\* complete_inbound_turn for a message whose session is not the active one
CompleteStaleTurn ==
    /\ \E k \in SessionKeys :
         /\ k # active
         /\ BusComplete(k)
         /\ op' = [name |-> "complete_stale", key |-> k, msg |-> NoArg]
    /\ UNCHANGED <<now, cur, turnLog, agentVars, consVars>>

NextBus ==
    \/ PublishInbound
    \/ ConsumeInbound
    \/ CompleteInboundTurn
    \/ CompleteStaleTurn

SpecBus == InitBus /\ [][NextBus]_vars

----------------------------------------------------------------------------
(* Claims about the MessageBus, checked under SpecBus *)

\* The session whose turn is in flight: its message was returned by
\* consume_inbound and complete_inbound_turn was not yet called for it.
InFlightSession == IF cur = <<>> THEN "" ELSE SessionKey(cur[1])

\* C1: while session K is the active session (a message of K was consumed and
\* its turn is not yet completed), every publish_inbound of a message of K
\* appends that message to K's buffer and leaves the inbound queue unchanged.
C1_ActivePublishIsBuffered ==
    [][(op'.name = "publish_inbound" /\ InFlightSession # ""
            /\ op'.key = InFlightSession)
        => /\ buffer' = [buffer EXCEPT ![InFlightSession] = Append(@, op'.msg[1])]
           /\ inbound' = inbound
           /\ Len(inbound') = Len(inbound)]_vars

\* C1 witness: a second message of the in-flight session has just been buffered.
C1_Witness ==
    /\ op.name = "publish_inbound"
    /\ InFlightSession # ""
    /\ op.key = InFlightSession
    /\ Len(buffer[InFlightSession]) >= 2
    /\ buffer[InFlightSession][Len(buffer[InFlightSession])] = op.msg[1]

\* "[<sender_id>] <content>" of one buffered entry
PrefixedEntry(m) == "[" \o m.sender_id \o "] " \o m.content

RECURSIVE BlankLineJoined(_, _)
\* the first n entries of log, prefixed, separated by a blank line
BlankLineJoined(log, n) ==
    IF n = 1 THEN PrefixedEntry(log[1])
    ELSE BlankLineJoined(log, n - 1) \o "\n\n" \o PrefixedEntry(log[n])

RECURSIVE MediaUpTo(_, _)
\* the media of the first n entries of log, in order
MediaUpTo(log, n) ==
    IF n = 0 THEN <<>> ELSE MediaUpTo(log, n - 1) \o log[n].media

\* m is the merged follow-up of the messages log = m1..mn, n >= 1
IsMergedFollowUp(m, log) ==
    /\ SessionKey(m) = SessionKey(log[1])
    /\ "collected_count" \in DOMAIN m.metadata
    /\ "collected_messages" \in DOMAIN m.metadata
    /\ m.metadata.collected_count = Len(log)
    /\ Len(m.metadata.collected_messages) = Len(log)
    /\ \A i \in 1..Len(log) :
         LET e == m.metadata.collected_messages[i]
         IN  /\ e.sender_id = log[i].sender_id
             /\ e.content = log[i].content
             /\ e.media = log[i].media
             /\ e.metadata = log[i].metadata
             /\ e.timestamp = IsoFormat(log[i].timestamp.t)
    /\ m.media = MediaUpTo(log, Len(log))
    /\ m.content = IF Len(log) = 1 THEN log[1].content
                   ELSE BlankLineJoined(log, Len(log))

\* C2: the messages m1..mn published for the active session during one
\* in-flight turn are enqueued by complete_inbound_turn as exactly one message,
\* the merged follow-up of m1..mn in publish order; with nothing buffered,
\* nothing is enqueued.
C2_CompleteEnqueuesOneMergedFollowUp ==
    [][op'.name = "complete_inbound_turn"
        => IF turnLog = <<>>
           THEN inbound' = inbound
           ELSE /\ Len(inbound') = Len(inbound) + 1
                /\ SubSeq(inbound', 1, Len(inbound)) = inbound
                /\ IsMergedFollowUp(inbound'[Len(inbound')], turnLog)
                /\ buffer'[op'.key] = <<>>]_vars

\* C2 witness: the turn of test_message_bus_merges_buffered_messages_in_order
\* has just been completed.
C2_Witness ==
    /\ op.name = "complete_inbound_turn"
    /\ inbound # <<>>
    /\ LET m == inbound[Len(inbound)]
       IN  /\ "collected_count" \in DOMAIN m.metadata
           /\ m.metadata.collected_count = 2
           /\ m.content = "[alice] one\n\n[bob] two"
           /\ m.media = <<"a.png">>

\* C3: a publish_inbound of a message whose session is not the active one
\* (another session's turn is in flight, or none is) puts the message on the
\* inbound queue at once and touches no buffer.
C3_OtherSessionPublishIsEnqueued ==
    [][(op'.name = "publish_inbound" /\ op'.key # InFlightSession)
        => /\ inbound' = Append(inbound, op'.msg[1])
           /\ buffer' = buffer]_vars

\* C3 witness: during a turn of one session a message of another session has
\* just been enqueued behind a message already waiting.
C3_Witness ==
    /\ op.name = "publish_inbound"
    /\ InFlightSession # ""
    /\ op.key # InFlightSession
    /\ inbound # <<>>
    /\ inbound[Len(inbound)] = op.msg[1]
    /\ buffer[InFlightSession] # <<>>

----------------------------------------------------------------------------
(* Spec: AgentLoop.run() and AgentLoop.process_direct() over the bus.      *)
(* run() is one coroutine: it consumes a message, awaits _process_message  *)
(* for it, publishes the response and consumes again. A turn is in flight  *)
(* from the consume to the return of _process_message; the LLM call inside *)
(* it is a suspension point, so publishes and process_direct calls         *)
(* interleave with it.                                                     *)

DirectKeys == SessionKeys \cup {"cli:direct"}

\* key = session_key or msg.session_key in _process_message
TurnSessionKey(msg, session_key) ==
    IF session_key # "" THEN session_key ELSE SessionKey(msg)

\* the ways _process_message ends: a reply, nothing to send, an exception
TurnOutcomes == {"reply", "none", "raise"}

\* Mutant: run() does not report the exception of a turn.
RunResponseNoErrorReport(msg, o) ==
    IF o = "reply" THEN <<[channel |-> msg.channel, chat_id |-> msg.chat_id, kind |-> "reply"]>>
    ELSE <<>>

\* what run() publishes once _process_message ended with outcome o
RunResponse(msg, o) ==
    IF o = "reply" THEN <<[channel |-> msg.channel, chat_id |-> msg.chat_id, kind |-> "reply"]>>
    ELSE IF o = "raise" THEN <<[channel |-> msg.channel, chat_id |-> msg.chat_id, kind |-> "error"]>>
    ELSE <<>>

\* run(): msg = await consume_inbound(), and _process_message(msg) starts
RunConsume ==
    /\ cur = <<>>
    /\ BusConsume
    /\ cur' = <<Head(inbound)>>
    /\ turnLog' = <<>>
    /\ op' = [name |-> "run_consume", key |-> SessionKey(Head(inbound)),
              msg |-> <<Head(inbound)>>]
    /\ UNCHANGED <<now, agentVars, consVars>>

\* run(): _process_message(msg) returns or raises, the response is published
\* and the loop goes back to consume_inbound; the bus is not told
RunFinishTurn ==
    /\ cur # <<>>
    /\ \E o \in TurnOutcomes :
         outbound' = outbound \o RunResponse(cur[1], o)
    /\ cur' = <<>>
    /\ turnLog' = <<>>
    /\ op' = [name |-> "run_finish_turn", key |-> SessionKey(cur[1]), msg |-> cur]
    /\ UNCHANGED <<busVars, direct, consVars>>

\* process_direct(content, session_key=k): _process_message starts
DirectBegin ==
    /\ BagCardinality(direct) < MaxDirect
    /\ \E k \in DirectKeys :
         /\ direct' = direct (+) SetToBag({TurnSessionKey(<<>>, k)})
         /\ op' = [name |-> "direct_begin", key |-> k, msg |-> NoArg]
    /\ UNCHANGED <<busVars, cur, turnLog, outbound, consVars>>

\* process_direct: _process_message returns
DirectEnd ==
    /\ \E k \in BagToSet(direct) :
         /\ direct' = direct (-) SetToBag({k})
         /\ op' = [name |-> "direct_end", key |-> k, msg |-> NoArg]
    /\ UNCHANGED <<busVars, cur, turnLog, outbound, consVars>>

\* the subscriber side: dispatch_outbound takes a message off the queue
DispatchOutbound ==
    /\ outbound # <<>>
    /\ outbound' = Tail(outbound)
    /\ op' = [name |-> "dispatch_outbound", key |-> "", msg |-> NoArg]
    /\ UNCHANGED <<busVars, cur, turnLog, direct, consVars>>

Init == InitBus

Next ==
    \/ PublishInbound
    \/ RunConsume
    \/ RunFinishTurn
    \/ DirectBegin
    \/ DirectEnd
    \/ DispatchOutbound

Spec == Init /\ [][Next]_vars

\* the executions of _process_message in flight for session key k
TurnsInFlight(k) ==
    (IF cur # <<>> /\ TurnSessionKey(cur[1], "") = k THEN 1 ELSE 0)
        + CopiesIn(k, direct)

\* C4: the messages published for session K while run() processes a turn of K
\* are processed after it as one merged follow-up turn; so when that turn has
\* finished and run() waits for its next message, none of them is left in
\* the bus's buffer: they are on the queue as the merged follow-up.
C4_FollowUpsAreEnqueuedAfterTheTurn ==
    cur = <<>> => \A k \in SessionKeys : buffer[k] = <<>>

\* C5: for any session key at most one execution of _process_message is in
\* flight, over the run() loop and process_direct.
C5_AtMostOneTurnPerSession ==
    \A k \in DirectKeys : TurnsInFlight(k) <= 1

----------------------------------------------------------------------------
(* Sessions: Session and SessionManager (nanobot/session/manager.py)       *)

\* Session(key=k)
NewSession(k) ==
    [key |-> k, messages |-> <<>>, last_consolidated |-> 0, last_consolidated_at |-> ""]

\* the records of Session.messages: tool_calls holds the ids of the calls of
\* an assistant record, tool_call_id the id a tool record answers ("" is None)
UserRecord(content) ==
    [role |-> "user", content |-> content, tool_calls |-> <<>>, tool_call_id |-> ""]
AssistantRecord(content, call_ids) ==
    [role |-> "assistant", content |-> content, tool_calls |-> call_ids, tool_call_id |-> ""]
ToolRecord(content, call_id) ==
    [role |-> "tool", content |-> content, tool_calls |-> <<>>, tool_call_id |-> call_id]

\* the ids of the tool calls the assistant records of msgs emit
EmittedIds(msgs) ==
    UNION {{msgs[i].tool_calls[j] : j \in 1..Len(msgs[i].tool_calls)} :
              i \in {x \in 1..Len(msgs) : msgs[x].role = "assistant"}}

\* the last min(n, len) records of msgs
Suffix(msgs, n) ==
    IF n >= Len(msgs) THEN msgs ELSE SubSeq(msgs, Len(msgs) - n + 1, Len(msgs))

\* msgs from its first user record on; empty when it has none
FromFirstUser(msgs) ==
    LET users == {i \in 1..Len(msgs) : msgs[i].role = "user"}
    IN  IF users = {} THEN <<>>
        ELSE SubSeq(msgs, CHOOSE i \in users : \A j \in users : i <= j, Len(msgs))

\* msgs without the tool records that answer no call emitted in msgs
DropOrphanTools(msgs) ==
    LET Kept(m) == m.role # "tool" \/ m.tool_call_id \in EmittedIds(msgs)
    IN  SelectSeq(msgs, Kept)

\* Mutant: the window is not advanced to a user record.
GetHistoryNoUserBoundary(messages, max_messages) ==
    DropOrphanTools(Suffix(messages, max_messages))

\* Mutant: the tool records that lost their assistant record are kept.
GetHistoryKeepsOrphans(messages, max_messages) ==
    FromFirstUser(Suffix(messages, max_messages))

\* Session.get_history(max_messages)
GetHistory(messages, max_messages) ==
    DropOrphanTools(FromFirstUser(Suffix(messages, max_messages)))

\* Session.clear()
SessionClear(sess) ==
    [sess EXCEPT !.messages = <<>>, !.last_consolidated = 0, !.last_consolidated_at = ""]

\* the id a new Session object gets
FreeId(o) == CHOOSE i \in ObjIds : o[i] = <<>> /\ \A j \in ObjIds : o[j] = <<>> => i <= j

\* SessionManager.get_or_create(k): the cached object, else one loaded from
\* the session's file, else a new one; the object is cached
GetOrCreate(o, c, d, k) ==
    IF c[k] # 0 THEN [objs |-> o, cache |-> c, id |-> c[k]]
    ELSE LET i == FreeId(o)
             loaded == IF d[k] # <<>> THEN d[k][1] ELSE NewSession(k)
         IN  [objs |-> [o EXCEPT ![i] = <<loaded>>], cache |-> [c EXCEPT ![k] = i], id |-> i]

\* SessionManager.save(session)
SessionSave(d, sess) == [d EXCEPT ![sess.key] = <<sess>>]

\* SessionManager.invalidate(k)
Invalidate(c, k) == [c EXCEPT ![k] = 0]

\* the objects something still refers to; the others are garbage
Collect(o, c, tk, tn) ==
    LET used == {c[k] : k \in SessionKeys} \cup {t.obj : t \in BagToSet(tk)}
                    \cup {tn[j].obj : j \in 1..Len(tn)}
    IN  [i \in ObjIds |-> IF i \in used THEN o[i] ELSE <<>>]

----------------------------------------------------------------------------
(* AgentLoop: the consolidation trigger and scheduler *)

ConsolidationCooldownS == 900
ConsolidationHardLimit == 30
\* the seconds between two readings of the clock
TickS == 900

MemoryWindows == {2}
CompressionWindows == {2}

\* AgentLoop._compression_keep_count
CompressionKeepCount ==
    IF cfg.memory_window \div 2 > 1 THEN cfg.memory_window \div 2 ELSE 1

\* self.compression_window_size = max(1, compression_window_size)
CompressionWindowSize ==
    IF cfg.compression_window_size > 1 THEN cfg.compression_window_size ELSE 1

\* AgentLoop._parse_iso_datetime: <<>> is None
ParseIsoDatetime(value) ==
    IF value = "" THEN <<>>
    ELSE IF \E t \in 0..MaxClock : IsoFormat(t) = value
         THEN <<CHOOSE t \in 0..MaxClock : IsoFormat(t) = value>>
         ELSE <<>>

\* Mutant: the cooldown must be exceeded, not reached.
ShouldScheduleConsolidationStrictCooldown(session, t) ==
    LET keep_count == CompressionKeepCount
        total_messages == Len(session.messages)
        compress_end == total_messages - keep_count
        delta == compress_end - session.last_consolidated
        last_at == ParseIsoDatetime(session.last_consolidated_at)
    IN  IF total_messages <= keep_count THEN FALSE
        ELSE IF delta <= 0 THEN FALSE
        ELSE IF delta >= ConsolidationHardLimit THEN TRUE
        ELSE IF delta >= CompressionWindowSize THEN TRUE
        ELSE IF last_at = <<>> THEN FALSE
        ELSE (t - last_at[1]) * TickS > ConsolidationCooldownS

\* AgentLoop._should_schedule_consolidation at clock t
ShouldScheduleConsolidation(session, t) ==
    LET keep_count == CompressionKeepCount
        total_messages == Len(session.messages)
        compress_end == total_messages - keep_count
        delta == compress_end - session.last_consolidated
        last_at == ParseIsoDatetime(session.last_consolidated_at)
    IN  IF total_messages <= keep_count THEN FALSE
        ELSE IF delta <= 0 THEN FALSE
        ELSE IF delta >= ConsolidationHardLimit THEN TRUE
        ELSE IF delta >= CompressionWindowSize THEN TRUE
        ELSE IF last_at = <<>> THEN FALSE
        ELSE (t - last_at[1]) * TickS >= ConsolidationCooldownS

\* asyncio.create_task(_run_for_session()) for session object i of key k
SchedTask(k, i) ==
    [kind |-> "sched", key |-> k, obj |-> i, pc |-> "created",
     was |-> 0, next |-> 0, mem |-> "", snap |-> <<>>]

\* asyncio.create_task(_consolidate_and_cleanup()) over the snapshot snap
ArchiveTask(k, snap) ==
    [kind |-> "archive", key |-> k, obj |-> 0, pc |-> "created",
     was |-> 0, next |-> 0, mem |-> "", snap |-> snap]

\* Mutant: the running set is not consulted, every request starts a task.
ScheduleConsolidationNoDedup(st, k, i) ==
    [st EXCEPT !.running = @ \cup {k},
               !.tasks = @ (+) SetToBag({SchedTask(k, i)})]

\* AgentLoop._schedule_consolidation, on st = [running, pending, tasks]
ScheduleConsolidation(st, k, i) ==
    IF k \in st.running
    THEN [st EXCEPT !.pending = @ \cup {k}]
    ELSE [st EXCEPT !.running = @ \cup {k},
                    !.tasks = @ (+) SetToBag({SchedTask(k, i)})]

\* Mutant: a pending request restarts the run without a look at the trigger.
RunForSessionFinallyNoRecheck(st, k, i, session, t) ==
    LET s1 == [st EXCEPT !.running = @ \ {k}]
    IN  IF k \in s1.pending
        THEN ScheduleConsolidation([s1 EXCEPT !.pending = @ \ {k}], k, i)
        ELSE s1

\* Mutant: the key stays in the running set when a request is pending.
RunForSessionFinallyKeepsPendingKey(st, k, i, session, t) ==
    IF k \in st.pending
    THEN LET s2 == [st EXCEPT !.pending = @ \ {k}]
         IN  IF ShouldScheduleConsolidation(session, t)
             THEN ScheduleConsolidation(s2, k, i)
             ELSE s2
    ELSE [st EXCEPT !.running = @ \ {k}]

\* the finally block of _run_for_session
RunForSessionFinally(st, k, i, session, t) ==
    LET s1 == [st EXCEPT !.running = @ \ {k}]
    IN  IF k \in s1.pending
        THEN LET s2 == [s1 EXCEPT !.pending = @ \ {k}]
             IN  IF ShouldScheduleConsolidation(session, t)
                 THEN ScheduleConsolidation(s2, k, i)
                 ELSE s2
        ELSE s1

----------------------------------------------------------------------------
(* Texts. A text is a sequence of tokens: the sentinel, a white-space or   *)
(* punctuation character, or a word, which is any run of other characters. *)
(* A nullable text is <<>> (None) or <<text>>.                             *)

None == <<>>
Str(text) == <<text>>

SilentMarker == "[SILENT]"
WhiteSpace == {" ", "\n"}
\* the characters _SILENT_TRAILING_RE lets follow the sentinel
SilentTrailing == WhiteSpace \cup {".", "!"}

\* text.strip() == ""
IsBlank(text) == \A i \in 1..Len(text) : text[i] \in WhiteSpace

\* where _SILENT_TRAILING_RE.search(text) matches: the sentinels that only
\* trailing characters follow (at most one: the last sentinel of the text)
SilentMatches(text) ==
    {i \in 1..Len(text) :
        /\ text[i] = SilentMarker
        /\ \A j \in (i + 1)..Len(text) : text[j] \in SilentTrailing}

\* AgentLoop._contains_silent_marker(content)
ContainsSilentMarker(content) ==
    content # None /\ content[1] # <<>> /\ SilentMatches(content[1]) # {}

\* the while loop of _strip_silent_marker: the match is cut off, again and again
RECURSIVE CutSilentMarkers(_)
CutSilentMarkers(text) ==
    IF SilentMatches(text) = {} THEN text
    ELSE CutSilentMarkers(SubSeq(text, 1, (CHOOSE i \in SilentMatches(text) : TRUE) - 1))

\* re.sub(r"\n{3,}", "\n\n", text): a newline that two newlines precede goes
CollapseNewlines(text) ==
    LET Third(i) == i > 2 /\ text[i] = "\n" /\ text[i - 1] = "\n" /\ text[i - 2] = "\n"
        keep == {i \in 1..Len(text) : ~Third(i)}
        Nth(n) == CHOOSE i \in keep : Cardinality({j \in keep : j <= i}) = n
    IN  [n \in 1..Cardinality(keep) |-> text[Nth(n)]]

\* text.strip()
StripText(text) ==
    LET solid == {i \in 1..Len(text) : text[i] \notin WhiteSpace}
    IN  IF solid = {} THEN <<>>
        ELSE SubSeq(text, CHOOSE i \in solid : \A j \in solid : i <= j,
                          CHOOSE i \in solid : \A j \in solid : j <= i)

\* Mutant: one sentinel is cut off, not every trailing one.
StripSilentMarkerOnce(content) ==
    IF content = None THEN None
    ELSE IF SilentMatches(content[1]) = {} THEN content
    ELSE Str(StripText(CollapseNewlines(
            SubSeq(content[1], 1, (CHOOSE i \in SilentMatches(content[1]) : TRUE) - 1))))

\* Mutant: the text is trimmed whether it has a trailing sentinel or not.
StripSilentMarkerAlwaysTrims(content) ==
    IF content = None THEN None
    ELSE Str(StripText(CollapseNewlines(CutSilentMarkers(content[1]))))

\* AgentLoop._strip_silent_marker(content)
StripSilentMarker(content) ==
    IF content = None THEN None
    ELSE IF SilentMatches(content[1]) = {} THEN content
    ELSE Str(StripText(CollapseNewlines(CutSilentMarkers(content[1]))))

----------------------------------------------------------------------------
(* AgentLoop._save_session_with_tools *)

\* an entry of tool_use_log
LogEntry(name, args, result) == [name |-> name, args |-> args, result |-> result]

\* "\n".join(lines), line i being "{i}. {name}({args}) -> {result}"
SummaryText(tool_use_log) ==
    LET Line(i) == ToString(i) \o ". " \o tool_use_log[i].name \o "("
                       \o tool_use_log[i].args \o ") -> " \o tool_use_log[i].result
    IN  [j \in 1..(2 * Len(tool_use_log) - 1) |->
            IF j % 2 = 1 THEN Line((j + 1) \div 2) ELSE "\n"]

\* f"toolsum_{uuid.uuid4().hex[:12]}": the ids uuid4 can give
SummaryCallIds == {"toolsum_1", "toolsum_2"}

\* Mutant: the summary's tool record is not written.
SaveSessionWithToolsNoToolRecord(session, user_content, final_content, tool_use_log, call_id) ==
    [session EXCEPT !.messages =
        @ \o <<UserRecord(user_content)>>
          \o (IF tool_use_log # <<>>
              THEN <<AssistantRecord(final_content, <<call_id>>)>>
              ELSE <<AssistantRecord(final_content, <<>>)>>)]

\* the records a turn appends: the user's, the assistant's and, when tools
\* ran, the tool record that answers the assistant's summary call
SaveSessionWithTools(session, user_content, final_content, tool_use_log, call_id) ==
    [session EXCEPT !.messages =
        @ \o <<UserRecord(user_content)>>
          \o (IF tool_use_log # <<>>
              THEN <<AssistantRecord(final_content, <<call_id>>),
                     ToolRecord(SummaryText(tool_use_log), call_id)>>
              ELSE <<AssistantRecord(final_content, <<>>)>>)]

----------------------------------------------------------------------------
(* AgentLoop._consolidate_memory *)

\* the part before the LLM call: "return" when the run ends at once, else the
\* watermark the run will write
ConsolidateSlice(session, archive_all) ==
    LET total_messages == Len(session.messages)
        keep_count == CompressionKeepCount
        compress_end == total_messages - keep_count
        delta == compress_end - session.last_consolidated
    IN  IF archive_all THEN [ret |-> FALSE, next |-> 0]
        ELSE IF total_messages <= keep_count THEN [ret |-> TRUE, next |-> 0]
        ELSE IF delta <= 0 THEN [ret |-> TRUE, next |-> 0]
        ELSE IF SubSeq(session.messages, session.last_consolidated + 1, compress_end) = <<>>
             THEN [ret |-> TRUE, next |-> 0]
        ELSE [ret |-> FALSE, next |-> compress_end]

\* what the LLM call and the memory files can do to a run; "cancelled" is
\* the CancelledError a task suspended at the call gets when it is cancelled
MemoryTexts == {"m1"}
Replies ==
    [kind : {"raise", "empty", "not_dict", "cancelled"}, entry : {FALSE}, update : {""},
     io : {"ok"}]
        \cup {r \in [kind : {"dict"}, entry : BOOLEAN, update : {""} \cup MemoryTexts,
                     io : {"ok", "append_raises", "write_raises"}] :
                /\ r.io = "append_raises" => r.entry
                /\ r.io = "write_raises" => r.update # ""}

\* the run fails on reply r: an exception or an early return inside the try
ReplyFails(r) ==
    \/ r.kind # "dict"
    \/ r.io = "append_raises" /\ r.entry
    \/ r.io = "write_raises" /\ r.update # ""

\* Mutant: the watermark is written before the memory files are.
ConsolidateReplyWatermarkFirst(session, task, r, hist, mem, t) ==
    LET appended == r.kind = "dict" /\ r.entry /\ r.io # "append_raises"
        written == /\ r.kind = "dict" /\ r.update # "" /\ r.update # task.mem
                   /\ r.io = "ok"
        done == ~ReplyFails(r)
    IN  [session |-> IF r.kind = "dict"
                     THEN [session EXCEPT !.last_consolidated = task.next,
                                          !.last_consolidated_at = IsoFormat(t)]
                     ELSE session,
         history |-> IF appended THEN hist + 1 ELSE hist,
         longTerm |-> IF written THEN r.update ELSE mem,
         save |-> done /\ task.kind # "archive",
         done |-> done]

\* Mutant: the watermark is computed anew from the messages of the time of
\* the write.
ConsolidateReplyRecomputes(session, task, r, hist, mem, t) ==
    LET appended == r.kind = "dict" /\ r.entry /\ r.io # "append_raises"
        written == /\ r.kind = "dict" /\ r.update # "" /\ r.update # task.mem
                   /\ ~(r.entry /\ r.io = "append_raises")
                   /\ r.io # "write_raises"
        done == ~ReplyFails(r)
    IN  [session |-> IF done
                     THEN [session EXCEPT
                             !.last_consolidated =
                                 IF task.kind = "archive" THEN 0
                                 ELSE Len(session.messages) - CompressionKeepCount,
                             !.last_consolidated_at = IsoFormat(t)]
                     ELSE session,
         history |-> IF appended THEN hist + 1 ELSE hist,
         longTerm |-> IF written THEN r.update ELSE mem,
         save |-> done /\ task.kind # "archive",
         done |-> done]

\* the part after the LLM call, on reply r at clock t: the session, the
\* memory files, and whether the session is saved
ConsolidateReply(session, task, r, hist, mem, t) ==
    LET appended == r.kind = "dict" /\ r.entry /\ r.io # "append_raises"
        written == /\ r.kind = "dict" /\ r.update # "" /\ r.update # task.mem
                   /\ ~(r.entry /\ r.io = "append_raises")
                   /\ r.io # "write_raises"
        done == ~ReplyFails(r)
    IN  [session |-> IF done
                     THEN [session EXCEPT !.last_consolidated = task.next,
                                          !.last_consolidated_at = IsoFormat(t)]
                     ELSE session,
         history |-> IF appended THEN hist + 1 ELSE hist,
         longTerm |-> IF written THEN r.update ELSE mem,
         save |-> done /\ task.kind # "archive",
         done |-> done]

----------------------------------------------------------------------------
(* SpecCons: run() handles one message at a time (a turn, /new or /help);  *)
(* the consolidation tasks it creates run between its suspension points.   *)

Bump(n) == IF n < 2 THEN n + 1 ELSE 2

\* the sessions the loop has served: those with a cached object or a file
KnownSessions == {k \in SessionKeys : cache[k] # 0 \/ disk[k] # <<>>}

InitCons ==
    /\ BusIdle
    /\ ConsIdle
    /\ now = 0
    /\ cfg \in [memory_window : MemoryWindows, compression_window_size : CompressionWindows]
    /\ op = [name |-> "init", key |-> "", msg |-> NoArg]

\* datetime.now() moves on
Tick ==
    /\ now < MaxClock
    /\ now' = now + 1
    /\ op' = [name |-> "tick", key |-> "", msg |-> NoArg]
    /\ UNCHANGED <<busSide, consVars>>

\* _process_message for an ordinary message of session k, up to the LLM call
TurnBegin ==
    /\ turn = <<>>
    /\ \E k \in SessionKeys :
         LET g == GetOrCreate(objs, cache, disk, k)
         IN  /\ served.turns < MaxTurns
             /\ Cardinality(KnownSessions \cup {k}) <= MaxSessions
             /\ served' = [served EXCEPT !.turns = @ + 1]
             /\ objs' = g.objs
             /\ cache' = g.cache
             /\ turn' = <<[key |-> k, obj |-> g.id]>>
             /\ op' = [name |-> "turn_begin", key |-> k, msg |-> NoArg]
    /\ UNCHANGED <<busSide, now, cfg, extVars, disk, tasks, running, pending, asked, history, longTerm>>

\* _process_message after the agent loop: the turn is appended and saved, and
\* consolidation is scheduled when the trigger holds
TurnEnd ==
    /\ turn # <<>>
    /\ \E tool_use_log \in {<<>>, <<LogEntry("exec", "{}", "ok")>>} :
         LET k == turn[1].key
             i == turn[1].obj
             session == SaveSessionWithTools(objs[i][1], <<"hello">>, <<"reply">>,
                                             tool_use_log, "toolsum_1")
             trigger == ShouldScheduleConsolidation(session, now)
             st == [running |-> running, pending |-> pending, tasks |-> tasks]
             st1 == IF trigger THEN ScheduleConsolidation(st, k, i) ELSE st
         IN  /\ disk' = SessionSave(disk, session)
             /\ tasks' = st1.tasks
             /\ running' = st1.running
             /\ pending' = st1.pending
             /\ asked' = IF trigger /\ k \in running
                         THEN [asked EXCEPT ![k] = Bump(@)] ELSE asked
             /\ objs' = Collect([objs EXCEPT ![i] = <<session>>], cache, st1.tasks, <<>>)
             /\ op' = [name |-> "turn_end", key |-> k,
                       msg |-> <<[trigger |-> trigger, busy |-> k \in running]>>]
    /\ turn' = <<>>
    /\ UNCHANGED <<busSide, now, cfg, extVars, cache, served, history, longTerm>>

\* the content of the OutboundMessage that answers "/new"
NewSessionReply == "New session started. Memory consolidation in progress."

\* _process_message for "/new" of session k: no suspension point
NewCommand ==
    /\ turn = <<>>
    /\ \E k \in SessionKeys :
         LET g == GetOrCreate(objs, cache, disk, k)
             session == g.objs[g.id][1]
             messages_to_archive == session.messages
             cleared == SessionClear(session)
             cache1 == Invalidate(g.cache, k)
             tasks1 == tasks (+) SetToBag({ArchiveTask(k, messages_to_archive)})
         IN  /\ served.news < MaxNew
             /\ Cardinality(KnownSessions \cup {k}) <= MaxSessions
             /\ served' = [served EXCEPT !.news = @ + 1]
             /\ disk' = SessionSave(disk, cleared)
             /\ cache' = cache1
             /\ tasks' = tasks1
             /\ objs' = Collect([g.objs EXCEPT ![g.id] = <<cleared>>], cache1, tasks1, <<>>)
             /\ op' = [name |-> "new", key |-> k, msg |-> <<[content |-> NewSessionReply]>>]
    /\ UNCHANGED <<busSide, now, cfg, extVars, turn, running, pending, asked, history, longTerm>>

\* the session a task consolidates
TaskSession(t) ==
    IF t.kind = "archive" THEN [NewSession(t.key) EXCEPT !.messages = t.snap]
    ELSE objs[t.obj][1]

\* how far a run got on reply r: it failed at the reply, or on the memory
\* files, or it wrote the watermark
Stage(r) ==
    IF r.kind = "cancelled" THEN "cancelled"
    ELSE IF r.kind # "dict" THEN "reply" ELSE IF ReplyFails(r) THEN "files" ELSE "done"

\* history: how the run of task t went, and its session as the step left it
Report(t, stage, done, session) ==
    [kind |-> t.kind, obj |-> t.obj, stage |-> stage, done |-> done,
     was |-> t.was,
     was_pending |-> t.kind = "sched" /\ t.key \in pending,
     asked |-> IF t.kind = "sched" THEN asked[t.key] ELSE 0,
     session |-> session]

\* a created task gets the loop: _consolidate_memory runs up to the LLM call,
\* or returns at once (and _run_for_session's finally block runs)
ConsolidateBegin ==
    /\ \E t \in BagToSet(tasks) :
         /\ t.pc = "created"
         /\ LET session == TaskSession(t)
                slice == ConsolidateSlice(session, t.kind = "archive")
                rest == tasks (-) SetToBag({t})
                st == [running |-> running, pending |-> pending, tasks |-> rest]
                st1 == IF slice.ret
                       THEN RunForSessionFinally(st, t.key, t.obj, session, now)
                       ELSE [st EXCEPT !.tasks = @ (+) SetToBag({[t EXCEPT
                                !.pc = "llm", !.was = session.last_consolidated,
                                !.next = slice.next, !.mem = longTerm]})]
            IN  /\ tasks' = st1.tasks
                /\ running' = st1.running
                /\ pending' = st1.pending
                /\ asked' = IF slice.ret THEN [asked EXCEPT ![t.key] = 0] ELSE asked
                /\ objs' = Collect(objs, cache, st1.tasks, turn)
                /\ op' = [name |-> IF slice.ret THEN "consolidate_skip" ELSE "consolidate_begin",
                          key |-> t.key,
                          msg |-> <<Report(t, "slice", TRUE, session)>>]
    /\ UNCHANGED <<busSide, now, cfg, extVars, cache, disk, turn, served, history, longTerm>>

\* the LLM call of a run returns or raises: the rest of _consolidate_memory
\* and, for a scheduled run, _run_for_session's finally block
ConsolidateEnd ==
    /\ \E t \in BagToSet(tasks), r \in Replies :
         /\ t.pc = "llm"
         /\ r.entry => history < MaxHistory
         /\ LET session == TaskSession(t)
                res == ConsolidateReply(session, t, r, history, longTerm, now)
                rest == tasks (-) SetToBag({t})
                st == [running |-> running, pending |-> pending, tasks |-> rest]
                st1 == IF t.kind = "sched"
                       THEN RunForSessionFinally(st, t.key, t.obj, res.session, now)
                       ELSE st
                objs1 == IF t.kind = "sched"
                         THEN [objs EXCEPT ![t.obj] = <<res.session>>] ELSE objs
            IN  /\ history' = res.history
                /\ longTerm' = res.longTerm
                /\ disk' = IF res.save THEN SessionSave(disk, res.session) ELSE disk
                /\ tasks' = st1.tasks
                /\ running' = st1.running
                /\ pending' = st1.pending
                /\ asked' = IF t.kind = "sched" THEN [asked EXCEPT ![t.key] = 0] ELSE asked
                /\ objs' = Collect(objs1, cache, st1.tasks, turn)
                /\ op' = [name |-> "consolidate_end", key |-> t.key,
                          msg |-> <<Report(t, Stage(r), res.done, res.session)>>]
    /\ UNCHANGED <<busSide, now, cfg, extVars, cache, turn, served>>

NextCons ==
    \/ Tick
    \/ TurnBegin
    \/ TurnEnd
    \/ NewCommand
    \/ ConsolidateBegin
    \/ ConsolidateEnd

SpecCons == InitCons /\ [][NextCons]_vars

----------------------------------------------------------------------------
(* Properties of sessions and consolidation, checked under SpecCons *)

WatermarkInRange(s) ==
    0 <= s.last_consolidated /\ s.last_consolidated <= Len(s.messages)

\* C6: every session, in memory or persisted, has
\* 0 <= last_consolidated <= len(messages), whatever the interleaving of
\* turns, /new and consolidation runs.
C6_WatermarkWithinMessages ==
    /\ \A i \in ObjIds : objs[i] # <<>> => WatermarkInRange(objs[i][1])
    /\ \A k \in SessionKeys : disk[k] # <<>> => WatermarkInRange(disk[k][1])

\* the executions of _consolidate_memory for key k suspended at the LLM call
RunsInFlight(k) ==
    LET S == {t \in BagToSet(tasks) : t.key = k /\ t.pc = "llm"}
    IN  BagCardinality([t \in S |-> tasks[t]])

\* C7: for each session key at most one execution of _consolidate_memory is
\* in flight, scheduled runs and the archive-all runs of /new together.
C7_OneConsolidationPerSession ==
    \A k \in SessionKeys : RunsInFlight(k) <= 1

\* the tasks _schedule_consolidation created for key k and that have not ended
SchedRuns(k, tk) ==
    LET S == {t \in BagToSet(tk) : t.key = k /\ t.kind = "sched"}
    IN  BagCardinality([t \in S |-> tk[t]])

\* C8: a request made while a run of the session is in flight starts nothing
\* and sets the pending flag; when a scheduled run ends the flag is cleared,
\* and exactly one follow-up run is started if requests were pending and the
\* trigger holds for the run's session, none otherwise.
C8_PendingRequestsCoalesce ==
    [][/\ (op'.name = "turn_end" /\ op'.msg[1].trigger /\ op'.msg[1].busy)
            => /\ op'.key \in pending'
               /\ tasks' = tasks
               /\ running' = running
       /\ (op'.name \in {"consolidate_end", "consolidate_skip"}
             /\ op'.msg[1].kind = "sched")
            => LET k == op'.key
               IN  /\ k \notin pending'
                   /\ SchedRuns(k, tasks) = 1
                   /\ IF k \in pending
                         /\ ShouldScheduleConsolidation(op'.msg[1].session, now)
                      THEN SchedRuns(k, tasks') = 1 /\ k \in running'
                      ELSE SchedRuns(k, tasks') = 0 /\ k \notin running']_vars

\* a run that two or more requests waited for has ended and one follow-up run
\* was started
C8_Witness ==
    /\ op.name = "consolidate_end"
    /\ op.msg[1].kind = "sched"
    /\ op.msg[1].was_pending
    /\ op.msg[1].asked >= 2
    /\ SchedRuns(op.key, tasks) = 1
    /\ op.key \in running
    /\ op.key \notin pending

\* C9: when a scheduled (non-archive) run succeeds, the watermark it writes is
\* at least the one the session had when the run began and at most the length
\* of the session's messages at the time of the write.
C9_SuccessAdvancesWithinMessages ==
    (op.name = "consolidate_end" /\ op.msg[1].kind = "sched" /\ op.msg[1].done)
        => /\ op.msg[1].session.last_consolidated >= op.msg[1].was
           /\ op.msg[1].session.last_consolidated <= Len(op.msg[1].session.messages)

----------------------------------------------------------------------------
(* SpecTrigger: _should_schedule_consolidation applied to sessions of any  *)
(* length and watermark, under several configurations.                     *)

MaxTriggerTotal == 33
MaxTriggerMark == 3
TriggerMemoryWindows == {0, 2, 5}
TriggerCompressionWindows == {0, 1, 2, 31}
TriggerStamps == {"", "never", IsoFormat(0), IsoFormat(MaxClock)}

\* a session of n messages with the watermarks lc and at
TriggerSession(n, lc, at) ==
    [key |-> "telegram:c1", messages |-> [i \in 1..n |-> "user"],
     last_consolidated |-> lc, last_consolidated_at |-> at]

\* a configuration, a clock reading and a session to ask about
InitTrigger ==
    /\ BusIdle
    /\ ConsIdle
    /\ now \in 0..MaxClock
    /\ cfg \in [memory_window : TriggerMemoryWindows,
                compression_window_size : TriggerCompressionWindows]
    /\ \E n \in 0..MaxTriggerTotal, lc \in 0..MaxTriggerMark, at \in TriggerStamps :
         op = [name |-> "call", key |-> "telegram:c1",
               msg |-> <<[session |-> TriggerSession(n, lc, at)]>>]

\* _should_schedule_consolidation(session) when datetime.now() reads now
CheckTrigger ==
    /\ op.name = "call"
    /\ LET session == op.msg[1].session
       IN  op' = [name |-> "should_schedule", key |-> session.key,
                  msg |-> <<[session |-> session, now |-> now,
                             result |-> ShouldScheduleConsolidation(session, now)]>>]
    /\ UNCHANGED <<busSide, now, consVars>>

NextTrigger == CheckTrigger

SpecTrigger == InitTrigger /\ [][NextTrigger]_vars

\* the quantities the trigger policy is stated in
PolicyKeep == IF cfg.memory_window \div 2 >= 1 THEN cfg.memory_window \div 2 ELSE 1
PolicyDelta(a) == Len(a.session.messages) - PolicyKeep - a.session.last_consolidated
PolicyElapsed(a) ==
    \E t0 \in 0..MaxClock :
        /\ a.session.last_consolidated_at = IsoFormat(t0)
        /\ (a.now - t0) * TickS >= 15 * 60

\* C11: _should_schedule_consolidation is true exactly when delta > 0 and
\* (delta >= 30, or delta >= compression_window_size, or 15 minutes have
\* passed since last_consolidated_at); it is false whenever delta <= 0.
C11_TriggerPolicy ==
    op.name = "should_schedule"
        => LET a == op.msg[1]
               delta == PolicyDelta(a)
           IN  a.result <=>
                   /\ delta > 0
                   /\ \/ delta >= 30
                      \/ delta >= cfg.compression_window_size
                      \/ PolicyElapsed(a)

\* the trigger fires on the cooldown alone, reached exactly
C11_Witness ==
    /\ op.name = "should_schedule"
    /\ op.msg[1].result
    /\ PolicyDelta(op.msg[1]) > 0
    /\ PolicyDelta(op.msg[1]) < 30
    /\ PolicyDelta(op.msg[1]) < cfg.compression_window_size
    /\ PolicyElapsed(op.msg[1])

----------------------------------------------------------------------------
(* /new and its archive-all run, checked under SpecCons *)

\* the session a turn of key k would get from get_or_create
LiveSession(k) ==
    IF cache[k] # 0 THEN objs[cache[k]][1]
    ELSE IF disk[k] # <<>> THEN disk[k][1]
    ELSE NewSession(k)

\* C12: /new clears the session and starts an archive-all run over the
\* snapshot; that run does not touch the live session, so when it returns
\* and no turn has been added since, the live session has no messages,
\* last_consolidated = 0 and last_consolidated_at = null.
C12_LiveSessionEmptyAfterArchive ==
    (op.name = "consolidate_end" /\ op.msg[1].kind = "archive"
        /\ LiveSession(op.key).messages = <<>>)
        => /\ LiveSession(op.key).last_consolidated = 0
           /\ LiveSession(op.key).last_consolidated_at = ""

----------------------------------------------------------------------------
(* SpecHistory: Session.get_history applied to sessions of every shape *)

MaxRecords == 4
MaxWindow == 5

\* the kinds of record a session holds
HistoryRecords ==
    {UserRecord("u1"), UserRecord("u2"), AssistantRecord("a0", <<>>),
     AssistantRecord("a1", <<"c1">>), ToolRecord("t1", "c1"), ToolRecord("t2", "c2")}

HistorySessions == UNION {[1..n -> HistoryRecords] : n \in 0..MaxRecords}

InitHistory ==
    /\ BusIdle
    /\ ConsIdle
    /\ now = 0
    /\ cfg = DefaultConfig
    /\ \E msgs \in HistorySessions, m \in 1..MaxWindow :
         op = [name |-> "call", key |-> "dingtalk:test",
               msg |-> <<[messages |-> msgs, max_messages |-> m]>>]

\* session.get_history(max_messages=m)
CallGetHistory ==
    /\ op.name = "call"
    /\ LET a == op.msg[1]
       IN  op' = [name |-> "get_history", key |-> op.key,
                  msg |-> <<[messages |-> a.messages, max_messages |-> a.max_messages,
                             result |-> GetHistory(a.messages, a.max_messages)]>>]
    /\ UNCHANGED <<busSide, now, consVars>>

NextHistory == CallGetHistory

SpecHistory == InitHistory /\ [][NextHistory]_vars

\* C13: get_history(M) is empty or starts with a user record, and every tool
\* record in it answers a call of an assistant record that is in it too.
C13_HistoryWindowWellFormed ==
    op.name = "get_history"
        => LET r == op.msg[1].result
           IN  /\ r = <<>> \/ r[1].role = "user"
               /\ \A i \in 1..Len(r) :
                    r[i].role = "tool"
                        => \E j \in 1..Len(r) :
                             /\ r[j].role = "assistant"
                             /\ \E c \in 1..Len(r[j].tool_calls) :
                                  r[j].tool_calls[c] = r[i].tool_call_id

\* a window that was cut inside a tool pair and lost an orphan tool record
C13_Witness ==
    /\ op.name = "get_history"
    /\ op.msg[1].messages = <<UserRecord("u1"), AssistantRecord("a1", <<"c1">>),
                              ToolRecord("t1", "c1"), UserRecord("u2")>>
    /\ op.msg[1].max_messages = 3
    /\ op.msg[1].result = <<UserRecord("u2")>>

\* the indices of messages that get_history(M) keeps, as the contract states
\* them: within the last min(M, len), from the first user record on, without
\* the tool records whose call no assistant record of that range emits
KeptIndices(msgs, m) ==
    LET n == Len(msgs)
        lo == IF m >= n THEN 1 ELSE n - m + 1
        users == {i \in lo..n : msgs[i].role = "user"}
        range == {i \in lo..n : \E u \in users : u <= i}
    IN  {i \in range :
            msgs[i].role = "tool"
                => \E j \in range :
                     /\ msgs[j].role = "assistant"
                     /\ \E c \in 1..Len(msgs[j].tool_calls) :
                          msgs[j].tool_calls[c] = msgs[i].tool_call_id}

\* C14: get_history(M) is the last min(M, len) records, cut to start at the
\* first user record, without the orphan tool records, in order; it never
\* has more than M records.
C14_HistoryIsTrimmedSuffix ==
    op.name = "get_history"
        => LET a == op.msg[1]
               kept == KeptIndices(a.messages, a.max_messages)
           IN  /\ Len(a.result) = Cardinality(kept)
               /\ Len(a.result) <= a.max_messages
               /\ \A i \in kept :
                    a.result[Cardinality({j \in kept : j <= i})] = a.messages[i]

\* the window [tool t1, user u2] of the session u1, a1+c1, t1(c1), u2 for
\* max_messages = 2 is [user u2]
C14_Witness ==
    /\ op.name = "get_history"
    /\ op.msg[1].messages = <<UserRecord("u1"), AssistantRecord("a1", <<"c1">>),
                              ToolRecord("t1", "c1"), UserRecord("u2")>>
    /\ op.msg[1].max_messages = 2
    /\ op.msg[1].result = <<UserRecord("u2")>>

----------------------------------------------------------------------------
(* SpecTurn: the turns of run() in detail. A turn is suspended at each     *)
(* await of _run_agent_loop: provider.chat and tools.execute; what lies    *)
(* between two awaits is one step.                                         *)

MaxCalls == 3
MaxIterations == 3

TurnConfigs ==
    [memory_window : {50}, compression_window_size : {12}, max_iterations : 1..MaxIterations]

\* the messages run() consumes: an ordinary one, and a system message whose
\* chat_id "telegram:c1" names the origin; content is a text
TurnMessages ==
    {[channel |-> "telegram", sender_id |-> "alice", chat_id |-> "c1", content |-> <<"hello">>],
     [channel |-> "system", sender_id |-> "subagent", chat_id |-> "telegram:c1",
      content |-> <<"done">>]}

\* a tool call of an LLMResponse (arguments as json.dumps gives them)
ToolCall(id, name) == [id |-> id, name |-> name, arguments |-> "{}"]

ToolCallLists ==
    {<<ToolCall("c1", "exec")>>, <<ToolCall("c1", "exec"), ToolCall("c2", "message")>>}

SilentTexts ==
    {<<"Acknowledged.", " ", SilentMarker>>,
     <<"ok", "\n", "\n", "\n", "ok", SilentMarker, "\n", SilentMarker, ".">>,
     <<SilentMarker, " ", "ok">>}

\* the LLMResponses provider.chat returns (an empty finish_reason counts as none): those
\* with tool calls, and those without
Responses ==
    [content : {None, Str(<<" ">>), Str(<<"hi">>), Str(<<"yo">>)},
     tool_calls : ToolCallLists, finish_reason : {"", "length"}]
    \cup [content : {None, Str(<<>>), Str(<<" ">>), Str(<<"hi">>)} \cup {Str(t) : t \in SilentTexts},
          tool_calls : {<<>>}, finish_reason : {"stop"}]

\* the texts tools.execute returns
ToolResults == {"ok"}

\* ContextBuilder.build_messages, without the system prompt
BuildMessages(hist, current_message) == hist \o <<UserRecord(current_message)>>

\* ContextBuilder.add_assistant_message: content is left out when it is falsy
AddAssistantMessage(messages, content, tool_calls) ==
    Append(messages,
           AssistantRecord(IF content = None THEN <<>> ELSE content[1],
                           [j \in 1..Len(tool_calls) |-> tool_calls[j].id]))

\* ContextBuilder.add_tool_result
AddToolResult(messages, tool_call_id, result) ==
    Append(messages, ToolRecord(<<result>>, tool_call_id))

\* the final reply of a loop that ran out of iterations
CapText(max_iterations, last_finish_reason) ==
    <<"I stopped before a final response because the tool-call loop hit the iteration limit (",
      ToString(max_iterations), "). Last finish_reason=", last_finish_reason,
      ". Please retry with a narrower request or increase agents.defaults.max_tool_iterations.">>

\* the final reply for a blank response when nothing was stashed
BlankText(fr, max_iterations) ==
    <<"I could not produce a final response because the model returned empty/blank content (finish_reason=",
      fr.last_finish_reason, ", iteration=", ToString(fr.iteration), "/",
      ToString(max_iterations), "). Please retry.">>

\* any(name == "message" for name, _, _ in tool_use_log)
SentMessage(tool_use_log) ==
    \E i \in 1..Len(tool_use_log) : tool_use_log[i].name = "message"

\* Mutant: a blank final response falls back on the stash whatever tools ran.
FinalContentStashFirst(fr, response, max_iterations) ==
    IF response.content = None \/ IsBlank(response.content[1])
    THEN IF fr.stashed_content # None /\ fr.stashed_content[1] # <<>> THEN fr.stashed_content[1]
         ELSE IF SentMessage(fr.tool_use_log) THEN <<>>
         ELSE BlankText(fr, max_iterations)
    ELSE response.content[1]

\* _run_agent_loop on a response without tool calls: final_content
FinalContent(fr, response, max_iterations) ==
    IF response.content = None \/ IsBlank(response.content[1])
    THEN IF SentMessage(fr.tool_use_log) THEN <<>>
         ELSE IF fr.stashed_content # None /\ fr.stashed_content[1] # <<>>
              THEN fr.stashed_content[1]
         ELSE BlankText(fr, max_iterations)
    ELSE response.content[1]

\* the locals of a turn that has just got its session: _run_agent_loop's
\* first lines. History: chats counts the LLM calls answered, events lists
\* the finish_reason of each response and the start and return of each tool
\* call, mark holds the lengths of messages and tool_use_log when the last
\* response came
NewFrame(msg, k, i, session, memory_window) ==
    [key |-> k, obj |-> i, system |-> msg.channel = "system",
     sender_id |-> msg.sender_id, user |-> msg.content,
     messages |-> BuildMessages(GetHistory(session.messages, memory_window), msg.content),
     iteration |-> 0, final_content |-> None, last_finish_reason |-> "unknown",
     tool_use_log |-> <<>>, stashed_content |-> None,
     tool_calls |-> <<>>, idx |-> 0, pc |-> "loop", chats |-> 0, events |-> <<>>,
     mark |-> [messages |-> 0, tool_use_log |-> 0]]

\* Mutant: the loop admits one iteration more than max_iterations.
LoopHeadOneMore(fr, max_iterations) ==
    IF fr.iteration <= max_iterations
    THEN [fr EXCEPT !.iteration = @ + 1, !.pc = "chat"]
    ELSE [fr EXCEPT !.pc = "done",
                    !.final_content = Str(CapText(max_iterations, fr.last_finish_reason))]

\* the head of the while loop: the next provider.chat is awaited, or the
\* loop is left without a final reply and the synthetic one is made
LoopHead(fr, max_iterations) ==
    IF fr.iteration < max_iterations
    THEN [fr EXCEPT !.iteration = @ + 1, !.pc = "chat"]
    ELSE [fr EXCEPT !.pc = "done",
                    !.final_content = Str(CapText(max_iterations, fr.last_finish_reason))]

\* the loop on a response, up to its next await
OnResponse(fr, response, max_iterations) ==
    LET f1 == [fr EXCEPT !.chats = @ + 1,
                         !.last_finish_reason =
                             IF response.finish_reason = "" THEN "unknown"
                             ELSE response.finish_reason,
                         !.tool_calls = response.tool_calls, !.idx = 0,
                         !.events = Append(@, [ev |-> "chat", id |-> response.finish_reason, name |-> ""]),
                         !.mark = [messages |-> Len(fr.messages),
                                   tool_use_log |-> Len(fr.tool_use_log)]]
    IN  IF response.tool_calls # <<>>
        THEN [f1 EXCEPT
                !.messages = AddAssistantMessage(@, response.content, response.tool_calls),
                !.stashed_content =
                    IF response.content # None /\ response.content[1] # <<>>
                           /\ ~IsBlank(response.content[1])
                    THEN response.content ELSE @,
                !.idx = 1, !.pc = "tool",
                !.events = Append(@, [ev |-> "start", id |-> response.tool_calls[1].id,
                                     name |-> response.tool_calls[1].name])]
        ELSE [f1 EXCEPT !.final_content = Str(FinalContent(f1, response, max_iterations)),
                        !.pc = "done"]

\* Mutant: the tool results are put in front of the earlier ones.
OnToolResultPrepends(fr, result, max_iterations) ==
    LET tc == fr.tool_calls[fr.idx]
        f1 == [fr EXCEPT
                 !.messages = AddToolResult(@, tc.id, result),
                 !.tool_use_log = <<LogEntry(tc.name, tc.arguments, result)>> \o @,
                 !.events = Append(@, [ev |-> "return", id |-> tc.id, name |-> tc.name])]
    IN  IF fr.idx < Len(fr.tool_calls)
        THEN [f1 EXCEPT !.idx = @ + 1,
                        !.events = Append(@, [ev |-> "start", id |-> fr.tool_calls[fr.idx + 1].id,
                                           name |-> fr.tool_calls[fr.idx + 1].name])]
        ELSE LoopHead(f1, max_iterations)

\* the loop on the result of the tool call it awaits, up to its next await;
\* the arguments and results of the model are short of the lengths at which
\* the log cuts them
OnToolResult(fr, result, max_iterations) ==
    LET tc == fr.tool_calls[fr.idx]
        f1 == [fr EXCEPT
                 !.messages = AddToolResult(@, tc.id, result),
                 !.tool_use_log = Append(@, LogEntry(tc.name, tc.arguments, result)),
                 !.events = Append(@, [ev |-> "return", id |-> tc.id, name |-> tc.name])]
    IN  IF fr.idx < Len(fr.tool_calls)
        THEN [f1 EXCEPT !.idx = @ + 1,
                        !.events = Append(@, [ev |-> "start", id |-> fr.tool_calls[fr.idx + 1].id,
                                           name |-> fr.tool_calls[fr.idx + 1].name])]
        ELSE LoopHead(f1, max_iterations)

\* OutboundMessage, by the fields the turn sets; silent defaults to False
Outbound(channel, chat_id, content, silent) ==
    [channel |-> channel, chat_id |-> chat_id, content |-> content, silent |-> silent]

\* Mutant: a turn that ends with nothing to say answers with an empty message.
TurnTailAlwaysReplies(fr, session, call_id) ==
    LET silent_requested == ContainsSilentMarker(fr.final_content)
        stripped == StripSilentMarker(fr.final_content)
        final_content == IF stripped = None
                         THEN <<"I've completed processing but have no response to give.">>
                         ELSE stripped[1]
    IN  [session |-> SaveSessionWithTools(session, fr.user, final_content,
                                          fr.tool_use_log, call_id),
         response |-> IF silent_requested THEN Str(Outbound("telegram", "c1", <<>>, TRUE))
                      ELSE Str(Outbound("telegram", "c1", final_content, FALSE))]

\* _process_message and _process_system_message after the agent loop: the
\* session with the turn's records, and the response (None or a message)
TurnTail(fr, session, call_id) ==
    LET silent_requested == ContainsSilentMarker(fr.final_content)
        stripped == StripSilentMarker(fr.final_content)
        final_content ==
            IF stripped # None THEN stripped[1]
            ELSE IF fr.system THEN <<"Background task completed.">>
            ELSE <<"I've completed processing but have no response to give.">>
        user_content == IF fr.system
                        THEN <<"[System: " \o fr.sender_id \o "] ">> \o fr.user
                        ELSE fr.user
    IN  [session |-> SaveSessionWithTools(session, user_content, final_content,
                                          fr.tool_use_log, call_id),
         response |-> IF silent_requested THEN Str(Outbound("telegram", "c1", <<>>, TRUE))
                      ELSE IF final_content = <<>> THEN None
                      ELSE Str(Outbound("telegram", "c1", final_content, FALSE))]

\* what a step of a turn leaves: the turn goes on from frame fr, or it has its
\* final reply, and then the session is saved, consolidation is scheduled
\* when the trigger holds, and run() publishes the response unless it is None
Settle(name, fr, arg) ==
    IF fr.pc # "done"
    THEN /\ turn' = <<fr>>
         /\ op' = [name |-> name, key |-> fr.key,
                   msg |-> <<[arg |-> arg, frame |-> fr, done |-> FALSE,
                              response |-> None, had |-> 0]>>]
         /\ UNCHANGED <<objs, disk, tasks, running, pending, asked, outbound>>
    ELSE \E call_id \in SummaryCallIds :
           LET tail == TurnTail(fr, objs[fr.obj][1], call_id)
               trigger == ShouldScheduleConsolidation(tail.session, now)
               st == [running |-> running, pending |-> pending, tasks |-> tasks]
               st1 == IF trigger THEN ScheduleConsolidation(st, fr.key, fr.obj) ELSE st
           IN  /\ turn' = <<>>
               /\ disk' = SessionSave(disk, tail.session)
               /\ tasks' = st1.tasks
               /\ running' = st1.running
               /\ pending' = st1.pending
               /\ asked' = IF trigger /\ fr.key \in running
                           THEN [asked EXCEPT ![fr.key] = Bump(@)] ELSE asked
               /\ objs' = Collect([objs EXCEPT ![fr.obj] = <<tail.session>>], cache,
                                  st1.tasks, <<>>)
               /\ outbound' = IF tail.response = None THEN outbound
                              ELSE Append(outbound, tail.response[1])
               /\ op' = [name |-> name, key |-> fr.key,
                         msg |-> <<[arg |-> arg, frame |-> fr, done |-> TRUE,
                                    response |-> tail.response,
                                    had |-> Len(objs[fr.obj][1].messages)]>>]

InitTurn ==
    /\ BusIdle
    /\ ConsIdle
    /\ now = 0
    /\ cfg \in TurnConfigs
    /\ op = [name |-> "init", key |-> "", msg |-> NoArg]

\* run() hands a message to _process_message, which gets the session, builds
\* the context and enters the agent loop
TurnStart ==
    /\ turn = <<>>
    /\ served.calls < MaxCalls
    /\ \E msg \in TurnMessages :
         LET k == "telegram:c1"
             g == GetOrCreate(objs, cache, disk, k)
             fr == LoopHead(NewFrame(msg, k, g.id, g.objs[g.id][1], cfg.memory_window),
                            cfg.max_iterations)
         IN  /\ objs' = g.objs
             /\ cache' = g.cache
             /\ turn' = <<fr>>
             /\ op' = [name |-> "turn_start", key |-> k,
                       msg |-> <<[arg |-> msg.channel, frame |-> fr, done |-> FALSE,
                                  response |-> None, had |-> 0]>>]
    /\ served' = [served EXCEPT !.turns = @ + 1]
    /\ UNCHANGED <<busSide, now, cfg, extVars, disk, tasks, running, pending, asked, history, longTerm>>

\* provider.chat returns
LlmReply ==
    /\ turn # <<>>
    /\ turn[1].pc = "chat"
    /\ served.calls < MaxCalls
    /\ \E response \in Responses :
         Settle("llm_reply", OnResponse(turn[1], response, cfg.max_iterations), response)
    /\ served' = [served EXCEPT !.calls = @ + 1]
    /\ UNCHANGED <<inbound, active, buffer, cur, turnLog, direct, now, cfg, extVars, cache,
                   history, longTerm>>

\* tools.execute returns
ToolReturn ==
    /\ turn # <<>>
    /\ turn[1].pc = "tool"
    /\ \E result \in ToolResults :
         Settle("tool_return", OnToolResult(turn[1], result, cfg.max_iterations), result)
    /\ UNCHANGED <<inbound, active, buffer, cur, turnLog, direct, now, cfg, extVars, cache,
                   served, history, longTerm>>

NextTurn ==
    \/ TurnStart
    \/ LlmReply
    \/ ToolReturn

SpecTurn == InitTurn /\ [][NextTurn]_vars

----------------------------------------------------------------------------
(* The claims about a turn *)

\* the persisted session of the model's one chat
Persisted == disk["telegram:c1"]

\* every assistant record with tool calls is followed at once by the tool
\* records of its calls, and every tool record answers an earlier call
ToolPairing(msgs) ==
    /\ \A i \in 1..Len(msgs) :
         msgs[i].role = "assistant"
             => \A j \in 1..Len(msgs[i].tool_calls) :
                  /\ i + j <= Len(msgs)
                  /\ msgs[i + j].role = "tool"
                  /\ msgs[i + j].tool_call_id = msgs[i].tool_calls[j]
    /\ \A i \in 1..Len(msgs) :
         msgs[i].role = "tool"
             => \E j \in 1..(i - 1) :
                  /\ msgs[j].role = "assistant"
                  /\ \E c \in 1..Len(msgs[j].tool_calls) :
                       msgs[j].tool_calls[c] = msgs[i].tool_call_id

\* C15: after any sequence of turns, for ordinary and system messages, with
\* and without tool use, every assistant record with tool_calls in the
\* persisted messages is followed at once by tool records with each of its
\* call ids, and every tool record's tool_call_id is the id of a call of an
\* earlier assistant record of the session.
C15_PersistedToolPairing ==
    \A k \in SessionKeys : disk[k] # <<>> => ToolPairing(disk[k][1].messages)

\* two turns are persisted: a system message's that used tools, and an
\* ordinary message's that used none
C15_Witness ==
    /\ Persisted # <<>>
    /\ LET m == Persisted[1].messages
       IN  /\ Len(m) = 5
           /\ m[1] = UserRecord(<<"[System: subagent] ", "done">>)
           /\ m[2].tool_calls # <<>>
           /\ m[3].role = "tool"
           /\ m[4] = UserRecord(<<"hello">>)
           /\ m[5].tool_calls = <<>>

\* the turn that the last step ended, as the step left it
Ended == op.msg[1]

TurnEnded == op.name \in {"llm_reply", "tool_return"} /\ op.msg[1].done

\* the finish_reasons of the responses of frame fr, oldest first
FinishReasons(fr) ==
    LET IsChat(e) == e.ev = "chat"
        chats == SelectSeq(fr.events, IsChat)
    IN  [j \in 1..Len(chats) |-> IF chats[j].id = "" THEN "unknown" ELSE chats[j].id]

\* C16: the loop calls the LLM at most max_iterations times and ends with a
\* final reply that is not null; when each of the max_iterations responses
\* carries tool calls, the final reply is the synthetic text that names the
\* cap and the last finish_reason, and the turn persists one user record,
\* then one assistant record with its paired tool-use-summary record.
C16_LoopBound ==
    /\ turn # <<>>
         => /\ turn[1].chats <= cfg.max_iterations
            /\ turn[1].pc = "chat" => turn[1].chats < cfg.max_iterations
    /\ TurnEnded
         => /\ Ended.frame.chats <= cfg.max_iterations
            /\ Ended.frame.final_content # None
    /\ (TurnEnded /\ op.name = "tool_return")
         => LET fr == Ended.frame
                final == fr.final_content[1]
                reasons == FinishReasons(fr)
                m == Persisted[1].messages
            IN  /\ fr.chats = cfg.max_iterations
                /\ Len(final) = 5
                /\ final[2] = ToString(cfg.max_iterations)
                /\ final[4] = reasons[Len(reasons)]
                /\ Len(m) = Ended.had + 3
                /\ m[Ended.had + 1].role = "user"
                /\ m[Ended.had + 2].role = "assistant"
                /\ m[Ended.had + 2].content = final
                /\ Len(m[Ended.had + 2].tool_calls) = 1
                /\ m[Ended.had + 3].role = "tool"
                /\ m[Ended.had + 3].tool_call_id = m[Ended.had + 2].tool_calls[1]

\* max_iterations is 2 and both responses carry tool calls, the first with
\* an empty finish_reason and the second with "length"
C16_Witness ==
    /\ TurnEnded
    /\ op.name = "tool_return"
    /\ cfg.max_iterations = 2
    /\ FinishReasons(Ended.frame) = <<"unknown", "length">>
    /\ Ended.frame.final_content[1][4] = "length"

\* the events of frame fr since its last response
LastEvents(fr) ==
    LET chats == {i \in 1..Len(fr.events) : fr.events[i].ev = "chat"}
        last == CHOOSE i \in chats : \A j \in chats : j <= i
    IN  SubSeq(fr.events, last + 1, Len(fr.events))

\* C17: the tool calls t1..tk of a response are executed one at a time in
\* the order t1..tk, no call starting before the one before it returned; one
\* assistant record with all k calls is appended, then k tool records with
\* the ids of t1..tk in that order, and k entries of the tool-use log in the
\* same order. Stated at every await and at the end of the calls: with s
\* calls started and r returned, the events since the response are start t1,
\* return t1, .., the records since it are the assistant's and r tool
\* records, and the log has r new entries.
C17_ToolDispatchOrder ==
    (op.name = "tool_return" \/ (op.name = "llm_reply" /\ op.msg[1].frame.pc = "tool"))
        => LET fr == op.msg[1].frame
               tc == fr.tool_calls
               k == Len(tc)
               s == IF fr.pc = "tool" THEN fr.idx ELSE k
               r == IF fr.pc = "tool" THEN fr.idx - 1 ELSE k
               ev == LastEvents(fr)
               m == fr.messages
               base == fr.mark.messages + 1
               log == fr.tool_use_log
           IN  /\ k >= 1 /\ s <= k /\ s - r \in {0, 1}
               /\ Len(ev) = s + r
               /\ \A j \in 1..s :
                    ev[2 * j - 1] = [ev |-> "start", id |-> tc[j].id, name |-> tc[j].name]
               /\ \A j \in 1..r :
                    ev[2 * j] = [ev |-> "return", id |-> tc[j].id, name |-> tc[j].name]
               /\ Len(m) = base + r
               /\ m[base].role = "assistant"
               /\ m[base].tool_calls = [j \in 1..k |-> tc[j].id]
               /\ \A j \in 1..r :
                    m[base + j].role = "tool" /\ m[base + j].tool_call_id = tc[j].id
               /\ Len(log) = fr.mark.tool_use_log + r
               /\ \A j \in 1..r : log[fr.mark.tool_use_log + j].name = tc[j].name

\* the second response of a turn carries two calls, and both have returned
C17_Witness ==
    /\ op.name = "tool_return"
    /\ op.msg[1].frame.chats = 2
    /\ Len(op.msg[1].frame.tool_calls) = 2
    /\ op.msg[1].frame.pc # "tool"
    /\ Len(op.msg[1].frame.tool_use_log) >= 3

\* the texts the responses of this turn carried next to tool calls and that
\* are not blank, oldest first: the assistant records the loop appended
\* after the user's message
StashedTexts(fr) ==
    LET m == fr.messages
        users == {i \in 1..Len(m) : m[i].role = "user"}
        cur_user == CHOOSE i \in users : \A j \in users : j <= i
        Carried(r) == r.role = "assistant" /\ r.tool_calls # <<>> /\ ~IsBlank(r.content)
        recs == SelectSeq(SubSeq(m, cur_user + 1, Len(m)), Carried)
    IN  [j \in 1..Len(recs) |-> recs[j].content]

\* the message tool was invoked during the turn of frame fr
MessageToolInvoked(fr) ==
    \E i \in 1..Len(fr.events) : fr.events[i].ev = "start" /\ fr.events[i].name = "message"

\* the response is blank: its content is null, empty or white space only
BlankResponse(response) == response.content = None \/ IsBlank(response.content[1])

\* the last step was the loop's on a response without tool calls
FinalResponse == op.name = "llm_reply" /\ op.msg[1].arg.tool_calls = <<>>

\* C18 as stated: on a response without tool calls the loop stops; the final
\* reply is the response's content when that is not blank, and else the most
\* recently stashed content whenever something was stashed in the turn.
C18_FinalReplySelection ==
    FinalResponse
        => LET fr == Ended.frame
               stash == StashedTexts(fr)
           IN  /\ Ended.done
               /\ fr.final_content # None
               /\ ~BlankResponse(Ended.arg) => fr.final_content = Ended.arg.content
               /\ (BlankResponse(Ended.arg) /\ stash # <<>>)
                    => fr.final_content = Str(stash[Len(stash)])

\* C18, amended: on a response without tool calls the loop stops; the final
\* reply is the response's content when that is not blank; when it is blank,
\* the final reply is the empty text if the message tool was invoked in the
\* turn, else the most recently stashed content if something was stashed,
\* else a synthetic text that names the finish_reason and the iteration.
C18_FinalReplySelectionAmended ==
    FinalResponse
        => LET fr == Ended.frame
               stash == StashedTexts(fr)
               final == fr.final_content[1]
               reasons == FinishReasons(fr)
           IN  /\ Ended.done
               /\ fr.final_content # None
               /\ ~BlankResponse(Ended.arg) => fr.final_content = Ended.arg.content
               /\ (BlankResponse(Ended.arg) /\ MessageToolInvoked(fr)) => final = <<>>
               /\ (BlankResponse(Ended.arg) /\ ~MessageToolInvoked(fr) /\ stash # <<>>)
                    => final = stash[Len(stash)]
               /\ (BlankResponse(Ended.arg) /\ ~MessageToolInvoked(fr) /\ stash = <<>>)
                    => /\ Len(final) = 7
                       /\ final[2] = reasons[Len(reasons)]
                       /\ final[4] = ToString(fr.chats)
                       /\ final[6] = ToString(cfg.max_iterations)

\* two responses carried text and tool calls, "hi" and then "yo", the message
\* tool was not invoked, and the third response is blank: the reply is "yo"
C18_Witness ==
    /\ FinalResponse
    /\ BlankResponse(Ended.arg)
    /\ ~MessageToolInvoked(Ended.frame)
    /\ StashedTexts(Ended.frame) = <<(<<"hi">>), (<<"yo">>)>>
    /\ Ended.frame.final_content = Str(<<"yo">>)

\* the records the ended turn appended to the session
TurnRecords ==
    SubSeq(Persisted[1].messages, Ended.had + 1, Len(Persisted[1].messages))

\* the text ends with the sentinel, which only white space and terminal
\* punctuation may follow
EndsWithSentinel(text) ==
    \E i \in 1..Len(text) :
        /\ text[i] = SilentMarker
        /\ \A j \in (i + 1)..Len(text) : text[j] \in SilentTrailing

\* the text without its trailing sentinels and what follows them
BeforeSentinels(text) ==
    LET Rest(i) == \A j \in i..Len(text) : text[j] \in SilentTrailing \cup {SilentMarker}
        cut == {i \in 1..Len(text) : text[i] = SilentMarker /\ Rest(i)}
    IN  SubSeq(text, 1, (CHOOSE i \in cut : \A j \in cut : i <= j) - 1)

\* C19: when the final text ends with the sentinel (white space and terminal
\* punctuation may follow it), the persisted assistant content is the text
\* without the sentinel, trimmed, and the turn's outbound message has empty
\* content and silent = true; when the final text has no trailing sentinel,
\* the outbound message, if there is one, is not silent.
C19_SilentHandling ==
    TurnEnded
        => LET final == Ended.frame.final_content[1]
               rec == TurnRecords
           IN  /\ EndsWithSentinel(final)
                    => /\ rec[2].role = "assistant"
                       /\ rec[2].content = StripText(CollapseNewlines(BeforeSentinels(final)))
                       /\ ~EndsWithSentinel(rec[2].content)
                       /\ Ended.response # None
                       /\ Ended.response[1].content = <<>>
                       /\ Ended.response[1].silent
                       /\ outbound # <<>>
                       /\ outbound[Len(outbound)] = Ended.response[1]
               /\ ~EndsWithSentinel(final)
                    => Ended.response = None \/ ~Ended.response[1].silent

\* the final text is "Acknowledged. [SILENT]": "Acknowledged." is persisted
\* and the outbound message is empty and silent
C19_Witness ==
    /\ TurnEnded
    /\ Ended.frame.final_content = Str(<<"Acknowledged.", " ", SilentMarker>>)
    /\ TurnRecords[2].content = <<"Acknowledged.">>
    /\ outbound # <<>>
    /\ outbound[Len(outbound)].silent
    /\ outbound[Len(outbound)].content = <<>>

\* C20: when the message tool was invoked in the turn and the final response
\* is blank and has no tool calls, _process_message returns no
\* OutboundMessage and run() publishes nothing for the turn, and the turn's
\* user and assistant records are persisted.
C20_NoReplyAfterMessageTool ==
    [][(/\ op'.name = "llm_reply"
        /\ op'.msg[1].arg.tool_calls = <<>>
        /\ BlankResponse(op'.msg[1].arg)
        /\ MessageToolInvoked(op'.msg[1].frame))
          => /\ op'.msg[1].done
             /\ op'.msg[1].response = None
             /\ outbound' = outbound
             /\ turn' = <<>>
             /\ LET m == disk'["telegram:c1"][1].messages
                    had == op'.msg[1].had
                IN  /\ Len(m) = had + 3
                    /\ m[had + 1].role = "user"
                    /\ m[had + 1].content[Len(m[had + 1].content)]
                         = op'.msg[1].frame.user[Len(op'.msg[1].frame.user)]
                    /\ m[had + 2].role = "assistant"
                    /\ m[had + 2].content = <<>>
                    /\ m[had + 3].role = "tool"]_vars

\* a turn that invoked the message tool ended on a null response: nothing
\* was published, and the turn is in the persisted session
C20_Witness ==
    /\ FinalResponse
    /\ Ended.arg.content = None
    /\ MessageToolInvoked(Ended.frame)
    /\ Ended.response = None
    /\ outbound = <<>>
    /\ Len(Persisted[1].messages) = 3

----------------------------------------------------------------------------
(* SpecStrip: _strip_silent_marker and _contains_silent_marker on the      *)
(* nullable texts of up to MaxTextLen tokens                               *)

MaxTextLen == 5

StripTokens == {"a", " ", "\n", ".", SilentMarker}

StripInputs ==
    {None} \cup {Str(t) : t \in UNION {[1..n -> StripTokens] : n \in 0..MaxTextLen}}

InitStrip ==
    /\ BusIdle
    /\ ConsIdle
    /\ now = 0
    /\ cfg = DefaultConfig
    /\ \E content \in StripInputs :
         op = [name |-> "call", key |-> "", msg |-> <<[content |-> content]>>]

\* the text is stripped, the result is stripped again and searched
CallStrip ==
    /\ op.name = "call"
    /\ LET content == op.msg[1].content
           once == StripSilentMarker(content)
       IN  op' = [name |-> "strip_silent_marker", key |-> "",
                  msg |-> <<[content |-> content, once |-> once,
                             twice |-> StripSilentMarker(once),
                             contains |-> ContainsSilentMarker(once)]>>]
    /\ UNCHANGED <<busSide, now, consVars>>

NextStrip == CallStrip

SpecStrip == InitStrip /\ [][NextStrip]_vars

\* C21: stripping twice gives what stripping once gives; a text without a
\* trailing sentinel (and None) is returned unchanged; the result never ends
\* with the sentinel, so _contains_silent_marker is false on it.
C21_StripIdempotent ==
    op.name = "strip_silent_marker"
        => LET a == op.msg[1]
           IN  /\ a.twice = a.once
               /\ (a.content = None \/ ~EndsWithSentinel(a.content[1])) => a.once = a.content
               /\ a.once # None => ~EndsWithSentinel(a.once[1])
               /\ ~a.contains

\* "a[SILENT].[SILENT] " is stripped to "a", and so is "a"
C21_Witness ==
    /\ op.name = "strip_silent_marker"
    /\ op.msg[1].content = Str(<<"a", SilentMarker, ".", SilentMarker, " ">>)
    /\ op.msg[1].once = Str(<<"a">>)
    /\ op.msg[1].twice = Str(<<"a">>)

----------------------------------------------------------------------------
(* SpecAck: the message tool sends through _publish_outbound_with_ack; the *)
(* channel side takes the message off the outbound queue and resolves its  *)
(* waiter, or leaves it unresolved.                                        *)

MaxFutures == 3

SupersededError == "superseded by a newer outbound request"

\* loop.create_future(), and a future with a result or cancelled
PendingFuture(request_id) ==
    [request_id |-> request_id, state |-> "pending", success |-> FALSE, error |-> ""]
SetResult(fut, success, error) ==
    [fut EXCEPT !.state = "result", !.success = success, !.error = error]
Cancelled(fut) == [fut EXCEPT !.state = "cancelled"]

\* fut.done()
FutureDone(fut) == fut.state # "pending"

\* Mutant: the old waiter is dropped and never completed.
CreateOutboundWaiterForgetsOld(w, f, request_id) ==
    [waiters |-> [w EXCEPT ![request_id] = Len(f) + 1],
     futures |-> Append(f, PendingFuture(request_id)),
     fut |-> Len(f) + 1]

\* MessageBus.create_outbound_waiter(request_id): the map, the futures and
\* the new future
CreateOutboundWaiter(w, f, request_id) ==
    LET old == w[request_id]
        f1 == IF old # 0 /\ ~FutureDone(f[old])
              THEN [f EXCEPT ![old] = SetResult(@, FALSE, SupersededError)]
              ELSE f
    IN  [waiters |-> [w EXCEPT ![request_id] = Len(f) + 1],
         futures |-> Append(f1, PendingFuture(request_id)),
         fut |-> Len(f) + 1]

\* Mutant: the waiter is looked up, not popped, and its result is set anew.
ResolveOutboundWaiterSetsAgain(w, f, request_id, success, error) ==
    IF request_id = "" THEN [waiters |-> w, futures |-> f]
    ELSE LET fut == w[request_id]
         IN  [waiters |-> w,
              futures |-> IF fut # 0 /\ f[fut].state # "cancelled"
                          THEN [f EXCEPT ![fut] = SetResult(@, success, error)]
                          ELSE f]

\* MessageBus.resolve_outbound_waiter(request_id, success, error); "" is None
ResolveOutboundWaiter(w, f, request_id, success, error) ==
    IF request_id = "" THEN [waiters |-> w, futures |-> f]
    ELSE LET fut == w[request_id]
         IN  [waiters |-> [w EXCEPT ![request_id] = 0],
              futures |-> IF fut # 0 /\ ~FutureDone(f[fut])
                          THEN [f EXCEPT ![fut] = SetResult(@, success, error)]
                          ELSE f]

\* MessageBus.discard_outbound_waiter(request_id)
DiscardOutboundWaiter(w, request_id) ==
    IF request_id = "" THEN w ELSE [w EXCEPT ![request_id] = 0]

\* what _publish_outbound_with_ack does once its wait is over: it returns
\* or raises RuntimeError with a text
Returned == [raised |-> FALSE, text |-> ""]
RuntimeError(text) == [raised |-> TRUE, text |-> text]

\* Mutant: a failed delivery is taken for a delivery.
AfterWaitIgnoresFailure(fut) == Returned

\* _publish_outbound_with_ack after wait_for gave the future's result
AfterWait(fut) ==
    IF ~fut.success
    THEN RuntimeError(IF fut.error # "" THEN fut.error ELSE "Message delivery failed")
    ELSE Returned

\* _publish_outbound_with_ack after wait_for timed out
AckTimeoutError == RuntimeError("Message delivery acknowledgement timeout after 15s")

\* MessageTool.execute around "await self._send_callback(msg)"
MessageToolResult(outcome) ==
    IF outcome.raised THEN "Error sending message: " \o outcome.text
    ELSE "Message delivered to telegram:c1"

\* the errors a channel reports ("" is None)
DeliveryErrors == {"", "chat not found"}

InitAck ==
    /\ BusIdle
    /\ ConsIdle
    /\ now = 0
    /\ cfg = DefaultConfig
    /\ op = [name |-> "init", key |-> "", msg |-> NoArg]

\* the message tool is executed: the waiter is created, the message is
\* published, and the call waits for the future
SendBegin ==
    /\ Len(futures) < MaxFutures
    /\ \E request_id \in RequestIds :
         LET c == CreateOutboundWaiter(waiters, futures, request_id)
         IN  /\ waiters' = c.waiters
             /\ futures' = c.futures
             /\ sends' = sends \cup {c.fut}
             /\ outbound' = Append(outbound, [channel |-> "telegram", chat_id |-> "c1",
                                              content |-> "hi", request_id |-> request_id])
             /\ op' = [name |-> "send_begin", key |-> request_id,
                       msg |-> <<[fut |-> c.fut, old |-> waiters[request_id]]>>]
    /\ UNCHANGED <<inbound, active, buffer, now, cur, turnLog, direct, cfg, objs, cache, disk,
                   turn, tasks, running, pending, served, asked, history, longTerm, llm, mcp, agent>>

\* the channel side takes a message and reports its delivery, or does not
Deliver ==
    /\ outbound # <<>>
    /\ outbound' = Tail(outbound)
    /\ \/ \E success \in BOOLEAN, error \in DeliveryErrors :
            LET r == ResolveOutboundWaiter(waiters, futures, outbound[1].request_id,
                                           success, error)
            IN  /\ waiters' = r.waiters
                /\ futures' = r.futures
                /\ op' = [name |-> "resolve", key |-> outbound[1].request_id,
                          msg |-> <<[success |-> success, error |-> error]>>]
       \/ /\ UNCHANGED <<waiters, futures>>
          /\ op' = [name |-> "no_resolve", key |-> outbound[1].request_id, msg |-> NoArg]
    /\ UNCHANGED <<inbound, active, buffer, now, cur, turnLog, direct, cfg, objs, cache, disk,
                   turn, tasks, running, pending, served, asked, history, longTerm, sends, llm, mcp, agent>>

\* wait_for returns the result of the future: the call returns or raises,
\* and the tool gives its result
SendEnd ==
    /\ \E fut \in sends :
         /\ futures[fut].state = "result"
         /\ sends' = sends \ {fut}
         /\ op' = [name |-> "send_end", key |-> futures[fut].request_id,
                   msg |-> <<[fut |-> fut, outcome |-> AfterWait(futures[fut]),
                              result |-> MessageToolResult(AfterWait(futures[fut]))]>>]
    /\ UNCHANGED <<busSide, now, cfg, objs, cache, disk, turn, tasks, running, pending,
                   served, asked, history, longTerm, waiters, futures, llm, mcp, agent>>

\* wait_for times out: it cancels the future, the waiter is discarded, the
\* call raises, and the tool gives its result
SendTimeout ==
    /\ \E fut \in sends :
         /\ futures[fut].state = "pending"
         /\ futures' = [futures EXCEPT ![fut] = Cancelled(@)]
         /\ waiters' = DiscardOutboundWaiter(waiters, futures[fut].request_id)
         /\ sends' = sends \ {fut}
         /\ op' = [name |-> "send_timeout", key |-> futures[fut].request_id,
                   msg |-> <<[fut |-> fut, outcome |-> AckTimeoutError,
                              result |-> MessageToolResult(AckTimeoutError)]>>]
    /\ UNCHANGED <<busSide, now, cfg, objs, cache, disk, turn, tasks, running, pending,
                   served, asked, history, longTerm, llm, mcp, agent>>

\* the channel side reports on a message that carries no request id, or
\* reports once more on a request id
StrayResolve ==
    /\ \E request_id \in RequestIds \cup {""}, success \in {TRUE} :
         LET r == ResolveOutboundWaiter(waiters, futures, request_id, success, "")
         IN  /\ waiters' = r.waiters
             /\ futures' = r.futures
             /\ op' = [name |-> "stray_resolve", key |-> request_id,
                       msg |-> <<[success |-> success, error |-> ""]>>]
    /\ UNCHANGED <<busSide, now, cfg, objs, cache, disk, turn, tasks, running, pending,
                   served, asked, history, longTerm, sends, llm, mcp, agent>>

NextAck ==
    \/ SendBegin
    \/ Deliver
    \/ StrayResolve
    \/ SendEnd
    \/ SendTimeout

SpecAck == InitAck /\ [][NextAck]_vars

\* C22: create_outbound_waiter(id) with an unresolved waiter registered for
\* id completes the old waiter with success = false and the "superseded"
\* error, and then the new waiter, and no other, is registered for id; a
\* later resolve_outbound_waiter(id, ..) completes the registered waiter
\* only and leaves every other future as it is.
C22_WaiterUniqueness ==
    [][/\ (/\ op'.name = "send_begin"
           /\ waiters[op'.key] # 0
           /\ ~FutureDone(futures[waiters[op'.key]]))
             => LET old == waiters[op'.key]
                    new == op'.msg[1].fut
                IN  /\ futures'[old] = SetResult(futures[old], FALSE, SupersededError)
                    /\ new # old
                    /\ waiters'[op'.key] = new
                    /\ futures'[new].state = "pending"
                    /\ \A r \in RequestIds : waiters'[r] # old
       /\ op'.name = "resolve"
             => LET reg == waiters[op'.key]
                IN  /\ \A f \in 1..Len(futures) : f # reg => futures'[f] = futures[f]
                    /\ (reg # 0 /\ ~FutureDone(futures[reg]))
                         => futures'[reg] = SetResult(futures[reg], op'.msg[1].success,
                                                      op'.msg[1].error)
                    /\ waiters'[op'.key] = 0]_vars

\* a second waiter for "out_1" superseded the first, and the resolve that
\* followed gave its success to the second
C22_Witness ==
    /\ op.name = "resolve"
    /\ op.key = "out_1"
    /\ Len(futures) = 2
    /\ futures[1] = SetResult(PendingFuture("out_1"), FALSE, SupersededError)
    /\ futures[2] = SetResult(PendingFuture("out_1"), TRUE, "")

\* C23: _publish_outbound_with_ack registers the waiter before it publishes
\* the message; it returns only when the waiter was resolved with success =
\* true, raises RuntimeError when it was resolved with success = false, and
\* raises RuntimeError and discards the waiter when no resolution came in
\* time; the message tool gives "Error sending message: ..." for the error.
C23_DeliveryAcknowledgement ==
    /\ op.name = "send_begin"
         => /\ outbound # <<>>
            /\ outbound[Len(outbound)].request_id = op.key
            /\ waiters[op.key] = op.msg[1].fut
            /\ futures[op.msg[1].fut] = PendingFuture(op.key)
    /\ op.name = "send_end"
         => LET fut == futures[op.msg[1].fut]
                out == op.msg[1].outcome
            IN  /\ fut.state = "result"
                /\ ~out.raised <=> fut.success
                /\ out.raised
                     => /\ out.text = (IF fut.error = "" THEN "Message delivery failed"
                                       ELSE fut.error)
                        /\ op.msg[1].result = "Error sending message: " \o out.text
                /\ ~out.raised => op.msg[1].result = "Message delivered to telegram:c1"
    /\ op.name = "send_timeout"
         => /\ op.msg[1].outcome.raised
            /\ waiters[op.key] = 0
            /\ op.msg[1].result
                 = "Error sending message: Message delivery acknowledgement timeout after 15s"

\* the channel reported a failure, and the tool gave the error as its result
C23_Witness ==
    /\ op.name = "send_end"
    /\ futures[op.msg[1].fut].error = "chat not found"
    /\ ~futures[op.msg[1].fut].success
    /\ op.msg[1].result = "Error sending message: chat not found"

----------------------------------------------------------------------------
(* SpecChat: LiteLLMProvider.llm and its two transport modes *)

\* the exceptions of a transport call or of the parsing of its response:
\* the type's name and str(exc), a text
ExceptionMessages == {<<>>, <<" ">>, <<"boom", " ">>}
Exceptions == [type : {"TimeoutError", "KeyError"}, message : ExceptionMessages]

\* the responses a transport call that succeeds is parsed to
ChatResponses ==
    {[content |-> Str(<<"hi">>), tool_calls |-> <<>>, finish_reason |-> "stop"],
     [content |-> None, tool_calls |-> <<ToolCall("c1", "exec")>>, finish_reason |-> "tool_calls"]}

\* the transport mode llm starts with, and the other one
DefaultMode(default_stream) == IF default_stream THEN "stream" ELSE "non_stream"
OtherMode(mode) == IF mode = "stream" THEN "non_stream" ELSE "stream"

\* LiteLLMProvider._format_exception(exc)
FormatException(exc) ==
    LET msg == StripText(exc.message)
    IN  IF msg # <<>> THEN <<exc.type, ": ">> \o msg ELSE <<exc.type>>

\* the LLMResponse for the exception of the fallback call
ErrorResponse(fallback_e) ==
    [content |-> Str(<<"Error calling LLM: ">> \o FormatException(fallback_e)),
     tool_calls |-> <<>>, finish_reason |-> "error"]

\* Mutant: a failed fallback is answered by a third call.
OnTransportErrorRetriesAgain(c, exc) ==
    [c EXCEPT !.errors = Append(@, exc),
              !.calls = Append(@, OtherMode(c.calls[Len(c.calls)]))]

\* llm when the call it awaits raises exc: the first call is followed by
\* the call in the other mode, the second by the error response
OnTransportError(c, exc) ==
    IF c.pc = "first"
    THEN [c EXCEPT !.pc = "second", !.errors = Append(@, exc),
                   !.calls = Append(@, OtherMode(DefaultMode(c.default_stream)))]
    ELSE [c EXCEPT !.pc = "done", !.errors = Append(@, exc),
                   !.result = <<ErrorResponse(exc)>>]

InitChat ==
    /\ BusIdle
    /\ ConsIdle
    /\ now = 0
    /\ cfg = DefaultConfig
    /\ \E default_stream \in BOOLEAN :
         op = [name |-> "init", key |-> "", msg |-> <<[default_stream |-> default_stream]>>]

\* the provider is made with its default mode
ProviderInit ==
    /\ op.name = "init"
    /\ llm' = NoChat(op.msg[1].default_stream)
    /\ op' = [name |-> "provider_init", key |-> "", msg |-> NoArg]
    /\ UNCHANGED <<busSide, now, cfg, objs, cache, disk, turn, tasks, running, pending,
                   served, asked, history, longTerm, waiters, futures, sends, mcp, agent>>

\* llm is called and makes its first transport call
ChatBegin ==
    /\ op.name = "provider_init"
    /\ llm.pc = "idle"
    /\ llm' = [llm EXCEPT !.pc = "first", !.calls = <<DefaultMode(llm.default_stream)>>]
    /\ op' = [name |-> "chat", key |-> "", msg |-> NoArg]
    /\ UNCHANGED <<busSide, now, cfg, objs, cache, disk, turn, tasks, running, pending,
                   served, asked, history, longTerm, waiters, futures, sends, mcp, agent>>

\* the transport call returns and its response is parsed
TransportReturns ==
    /\ llm.pc \in {"first", "second"}
    /\ \E response \in ChatResponses :
         /\ llm' = [llm EXCEPT !.pc = "done", !.result = <<response>>]
         /\ op' = [name |-> "transport_returns", key |-> "", msg |-> <<response>>]
    /\ UNCHANGED <<busSide, now, cfg, objs, cache, disk, turn, tasks, running, pending,
                   served, asked, history, longTerm, waiters, futures, sends, mcp, agent>>

\* the transport call, or the parsing of its response, raises
TransportRaises ==
    /\ llm.pc \in {"first", "second"}
    /\ \E exc \in Exceptions :
         /\ llm' = OnTransportError(llm, exc)
         /\ op' = [name |-> "transport_raises", key |-> "", msg |-> <<exc>>]
    /\ UNCHANGED <<busSide, now, cfg, objs, cache, disk, turn, tasks, running, pending,
                   served, asked, history, longTerm, waiters, futures, sends, mcp, agent>>

NextChat ==
    \/ ProviderInit
    \/ ChatBegin
    \/ TransportReturns
    \/ TransportRaises

SpecChat == InitChat /\ [][NextChat]_vars

\* C24: llm makes its first transport call in the default mode; when that
\* fails it makes one more call, in the other mode; it makes at most two
\* calls and ends with a response whatever the calls raise: when both fail,
\* the response has finish_reason "error", no tool calls, and the content
\* "Error calling LLM: <type>: <message>" of the second failure, or only the
\* type when the message is empty.
C24_StreamFallback ==
    /\ Len(llm.calls) <= 2
    /\ Len(llm.errors) <= Len(llm.calls)
    /\ llm.calls # <<>> => llm.calls[1] = IF llm.default_stream THEN "stream" ELSE "non_stream"
    /\ Len(llm.calls) = 2
         => /\ llm.calls[2] # llm.calls[1]
            /\ llm.calls[2] \in {"stream", "non_stream"}
            /\ llm.errors # <<>>
    /\ (llm.errors # <<>> /\ llm.pc # "done") => Len(llm.calls) = 2
    /\ (llm.pc \in {"first", "second"}) => Len(llm.errors) < 2
    /\ llm.pc = "done" => llm.result # <<>>
    /\ Len(llm.errors) = 2
         => LET e == llm.errors[2]
                blank == \A i \in 1..Len(e.message) : e.message[i] \in WhiteSpace
                text == llm.result[1].content[1]
            IN  /\ llm.pc = "done"
                /\ llm.result[1].finish_reason = "error"
                /\ llm.result[1].tool_calls = <<>>
                /\ text[1] = "Error calling LLM: "
                /\ text[2] = e.type
                /\ blank => Len(text) = 2
                /\ ~blank => /\ text[3] = ": "
                             /\ text[4] = "boom"

\* the default mode is non-stream; both calls fail, the second with a
\* KeyError without a message: the content is "Error calling LLM: KeyError"
C24_Witness ==
    /\ ~llm.default_stream
    /\ llm.calls = <<"non_stream", "stream">>
    /\ Len(llm.errors) = 2
    /\ llm.errors[1].type = "TimeoutError"
    /\ llm.errors[2] = [type |-> "KeyError", message |-> <<>>]
    /\ llm.result = <<[content |-> Str(<<"Error calling LLM: ", "KeyError">>),
                        tool_calls |-> <<>>, finish_reason |-> "error"]>>

----------------------------------------------------------------------------
(* SpecMerge: the tool-call fragments of a stream, as _stream_chat merges  *)
(* them. "" is a value that is None or empty.                              *)

MaxFragments == 3

FragmentIndexes == {0, 1}

\* a fragment of delta.tool_calls: tc.index, tc.id, and tc.function, which
\* may be missing, with its name and its piece of the arguments
Fragments ==
    [index : FragmentIndexes, id : {"", "a", "b"}, function : {TRUE},
     name : {"", "f"}, arguments : {"", "{", "}"}]
    \cup [index : FragmentIndexes, id : {"", "a", "b"}, function : {FALSE},
          name : {""}, arguments : {""}]

FragmentLists == UNION {[1..n -> Fragments] : n \in 0..MaxFragments}

\* json.loads(text) on a text of the pieces "{" and "}": only "{}" decodes;
\* what does not decode becomes {"raw": text}
JsonLoads(text) ==
    IF text = "{}" THEN [raw |-> FALSE, text |-> text] ELSE [raw |-> TRUE, text |-> text]

\* Mutant: a later fragment's id replaces the one seen, empty or not.
MergeFragmentOverwritesId(map, tc) ==
    LET fresh == [id |-> tc.id, name |-> IF tc.function THEN tc.name ELSE "", arguments |-> ""]
        e0 == IF map[tc.index] = <<>> THEN fresh ELSE map[tc.index][1]
        e1 == [e0 EXCEPT !.id = tc.id]
        e2 == IF tc.function /\ tc.name # "" THEN [e1 EXCEPT !.name = tc.name] ELSE e1
        e3 == IF tc.function /\ tc.arguments # ""
              THEN [e2 EXCEPT !.arguments = @ \o tc.arguments] ELSE e2
    IN  [map EXCEPT ![tc.index] = <<e3>>]

\* the body of "for tc in delta.tool_calls": tool_calls_map after fragment tc
MergeFragment(map, tc) ==
    LET fresh == [id |-> tc.id, name |-> IF tc.function THEN tc.name ELSE "", arguments |-> ""]
        e0 == IF map[tc.index] = <<>> THEN fresh ELSE map[tc.index][1]
        e1 == IF tc.id # "" THEN [e0 EXCEPT !.id = tc.id] ELSE e0
        e2 == IF tc.function /\ tc.name # "" THEN [e1 EXCEPT !.name = tc.name] ELSE e1
        e3 == IF tc.function /\ tc.arguments # ""
              THEN [e2 EXCEPT !.arguments = @ \o tc.arguments] ELSE e2
    IN  [map EXCEPT ![tc.index] = <<e3>>]

\* tool_calls_map after the fragments, in arrival order
RECURSIVE MergeFragments(_, _)
MergeFragments(map, fragments) ==
    IF fragments = <<>> THEN map
    ELSE MergeFragments(MergeFragment(map, Head(fragments)), Tail(fragments))

\* "for idx in sorted(tool_calls_map.keys())": the ToolCallRequests
BuildToolCalls(map) ==
    LET keys == {i \in FragmentIndexes : map[i] # <<>>}
        Nth(n) == CHOOSE i \in keys : Cardinality({j \in keys : j <= i}) = n
    IN  [n \in 1..Cardinality(keys) |->
            [id |-> map[Nth(n)][1].id, name |-> map[Nth(n)][1].name,
             arguments |-> JsonLoads(map[Nth(n)][1].arguments)]]

\* the structured tool calls _stream_chat makes of the fragments of a stream
StreamToolCalls(fragments) ==
    BuildToolCalls(MergeFragments([i \in FragmentIndexes |-> <<>>], fragments))

InitMerge ==
    /\ BusIdle
    /\ ConsIdle
    /\ now = 0
    /\ cfg = DefaultConfig
    /\ \E fragments \in FragmentLists :
         op = [name |-> "call", key |-> "", msg |-> <<[fragments |-> fragments]>>]

\* the stream is read to its end and the tool calls are built
ReadStream ==
    /\ op.name = "call"
    /\ op' = [name |-> "stream_tool_calls", key |-> "",
              msg |-> <<[fragments |-> op.msg[1].fragments,
                         tool_calls |-> StreamToolCalls(op.msg[1].fragments)]>>]
    /\ UNCHANGED <<busSide, now, consVars>>

NextMerge == ReadStream

SpecMerge == InitMerge /\ [][NextMerge]_vars

\* the fragments of fs with index x, in arrival order
OfIndex(fs, x) ==
    LET Has(f) == f.index = x
    IN  SelectSeq(fs, Has)

\* the argument pieces of fs, joined
RECURSIVE JoinPieces(_)
JoinPieces(fs) ==
    IF fs = <<>> THEN "" ELSE Head(fs).arguments \o JoinPieces(Tail(fs))

\* the last non-empty id of fs, and the last non-empty name; "" when none
LastId(fs) ==
    LET set == {i \in 1..Len(fs) : fs[i].id # ""}
    IN  IF set = {} THEN "" ELSE fs[CHOOSE i \in set : \A j \in set : j <= i].id
LastName(fs) ==
    LET set == {i \in 1..Len(fs) : fs[i].name # ""}
    IN  IF set = {} THEN "" ELSE fs[CHOOSE i \in set : \A j \in set : j <= i].name

\* C25: the fragments that share an index are merged into one tool call;
\* its arguments text is their pieces joined in arrival order, its id and
\* name are the last non-empty ones seen for the index; the tool calls are
\* in increasing index order; arguments that do not decode as JSON become
\* {"raw": text}.
C25_StreamToolCallMerge ==
    op.name = "stream_tool_calls"
        => LET fs == op.msg[1].fragments
               r == op.msg[1].tool_calls
               seen == {fs[i].index : i \in 1..Len(fs)}
           IN  /\ Len(r) = Cardinality(seen)
               /\ \A x \in seen :
                    LET n == Cardinality({y \in seen : y <= x})
                        mine == OfIndex(fs, x)
                        text == JoinPieces(mine)
                    IN  /\ r[n].id = LastId(mine)
                        /\ r[n].name = LastName(mine)
                        /\ r[n].arguments.text = text
                        /\ r[n].arguments.raw <=> text # "{}"

\* the fragments of index 1 and index 0 arrive interleaved; the call of
\* index 0 comes first, with the id "b", the name "f" and the arguments {}
C25_Witness ==
    /\ op.name = "stream_tool_calls"
    /\ op.msg[1].fragments =
         <<[index |-> 0, id |-> "a", function |-> TRUE, name |-> "f", arguments |-> "{"],
           [index |-> 1, id |-> "a", function |-> TRUE, name |-> "f", arguments |-> "}"],
           [index |-> 0, id |-> "b", function |-> TRUE, name |-> "", arguments |-> "}"]>>
    /\ op.msg[1].tool_calls =
         <<[id |-> "b", name |-> "f", arguments |-> [raw |-> FALSE, text |-> "{}"]],
           [id |-> "a", name |-> "f", arguments |-> [raw |-> TRUE, text |-> "}"]]>>

----------------------------------------------------------------------------
(* SpecCoerce: the textual tool calls of a stream's content. A content is  *)
(* a text whose tokens are the marker, an identifier, a parenthesis, a     *)
(* JSON object, an opening brace that no JSON object follows, white space, *)
(* or another word.                                                        *)

MaxSegments == 3

ToolCallToken == "[tool_call]"
Identifiers == {"f", "g"}
JsonObject == "{}"

\* the pieces the contents of the model are made of: well-formed
\* occurrences, malformed ones, and other text
Segments ==
    {<<ToolCallToken, "f", "(", JsonObject, ")">>,
     <<ToolCallToken, " ", "g", " ", "(", "\n", JsonObject, " ", ")">>,
     <<ToolCallToken, "f", "(", "{", ")">>,
     <<ToolCallToken, "f", "(", JsonObject>>,
     <<ToolCallToken, "(", JsonObject, ")">>,
     <<ToolCallToken, "f", JsonObject, ")">>,
     <<ToolCallToken>>,
     <<"x!">>, <<" ">>, <<"\n", "\n", "\n">>, <<")">>}

CoerceContents ==
    {None} \cup {Str(Flatten(segs)) : segs \in UNION {[1..n -> Segments] : n \in 0..MaxSegments}}

\* the index of the first token at or after i that is not white space
\* (Len + 1 when there is none): \s* of the regex, and lstrip()
SkipSpace(text, i) ==
    LET solid == {j \in i..Len(text) : text[j] \notin WhiteSpace}
    IN  IF solid = {} THEN Len(text) + 1 ELSE CHOOSE j \in solid : \A k \in solid : j <= k

\* the body of the while loop for the marker at start: 0 when the occurrence
\* is malformed, else end, the index after its closing parenthesis
ParseOccurrence(text, start) ==
    LET n == Len(text)
        name == SkipSpace(text, start + 1)
        paren == SkipSpace(text, name + 1)
        brace == SkipSpace(text, paren + 1)
        close == SkipSpace(text, brace + 1)
    IN  IF name > n \/ text[name] \notin Identifiers THEN 0
        ELSE IF paren > n \/ text[paren] # "(" THEN 0
        ELSE IF brace > n \/ text[brace] \notin {JsonObject, "{"} THEN 0
        ELSE IF text[brace] # JsonObject THEN 0
        ELSE IF close > n \/ text[close] # ")" THEN 0
        ELSE close + 1

\* Mutant: the scan goes on after the marker of a well-formed occurrence too.
RECURSIVE ScanMarkersStepsByOne(_, _, _)
ScanMarkersStepsByOne(text, pos, found) ==
    LET markers == {i \in pos..Len(text) : text[i] = ToolCallToken}
        start == CHOOSE i \in markers : \A j \in markers : i <= j
        end == ParseOccurrence(text, start)
    IN  IF markers = {} THEN found
        ELSE IF end = 0 THEN ScanMarkersStepsByOne(text, start + 1, found)
        ELSE ScanMarkersStepsByOne(text, start + 1,
                 [calls |-> found.calls,
                  spans |-> Append(found.spans, [start |-> start, end |-> end])])

\* the while loop from pos on: the calls and the spans found
RECURSIVE ScanMarkers(_, _, _)
ScanMarkers(text, pos, found) ==
    LET markers == {i \in pos..Len(text) : text[i] = ToolCallToken}
        start == CHOOSE i \in markers : \A j \in markers : i <= j
        end == ParseOccurrence(text, start)
    IN  IF markers = {} THEN found
        ELSE IF end = 0 THEN ScanMarkers(text, start + 1, found)
        ELSE ScanMarkers(text, end,
                 [calls |-> Append(found.calls,
                                   [name |-> text[SkipSpace(text, start + 1)],
                                    arguments |-> JsonObject]),
                  spans |-> Append(found.spans, [start |-> start, end |-> end])])

\* "".join(parts): the text without its spans
CutSpans(text, spans) ==
    LET keep == {i \in 1..Len(text) :
                    \A k \in 1..Len(spans) : ~(spans[k].start <= i /\ i < spans[k].end)}
        Nth(n) == CHOOSE i \in keep : Cardinality({j \in keep : j <= i}) = n
    IN  [n \in 1..Cardinality(keep) |-> text[Nth(n)]]

\* LiteLLMProvider._coerce_stream_text_tool_calls(content); the calls are
\* given without their ids, which are new uuid4 texts
CoerceStreamTextToolCalls(content) ==
    IF content = None \/ content[1] = <<>>
          \/ \A i \in 1..Len(content[1]) : content[1][i] # ToolCallToken
    THEN [content |-> content, calls |-> <<>>]
    ELSE LET found == ScanMarkers(content[1], 1, [calls |-> <<>>, spans |-> <<>>])
             cleaned == StripText(CollapseNewlines(CutSpans(content[1], found.spans)))
         IN  IF found.calls = <<>> THEN [content |-> content, calls |-> <<>>]
             ELSE [content |-> IF cleaned = <<>> THEN None ELSE Str(cleaned),
                   calls |-> found.calls]

\* Mutant: the text is searched whether the stream had tool calls or not.
StreamResultAlwaysCoerces(content, tool_calls) ==
    LET c == CoerceStreamTextToolCalls(content)
    IN  [content |-> c.content,
         tool_calls |-> IF c.calls # <<>> THEN c.calls ELSE tool_calls]

\* _stream_chat's coercion guard: the content and the tool calls of the
\* response
StreamResult(content, tool_calls) ==
    IF tool_calls = <<>>
    THEN LET c == CoerceStreamTextToolCalls(content)
         IN  [content |-> c.content,
              tool_calls |-> IF c.calls # <<>> THEN c.calls ELSE tool_calls]
    ELSE [content |-> content, tool_calls |-> tool_calls]

\* the structured tool calls of a stream: none, or one
StructuredCalls == {<<>>, <<[name |-> "exec", arguments |-> JsonObject]>>}

InitCoerce ==
    /\ BusIdle
    /\ ConsIdle
    /\ now = 0
    /\ cfg = DefaultConfig
    /\ \E content \in CoerceContents, tool_calls \in StructuredCalls :
         op = [name |-> "call", key |-> "",
               msg |-> <<[content |-> content, tool_calls |-> tool_calls]>>]

\* the stream has ended: the response's content and tool calls are made
FinishStream ==
    /\ op.name = "call"
    /\ op' = [name |-> "stream_result", key |-> "",
              msg |-> <<[content |-> op.msg[1].content, tool_calls |-> op.msg[1].tool_calls,
                         result |-> StreamResult(op.msg[1].content, op.msg[1].tool_calls)]>>]
    /\ UNCHANGED <<busSide, now, consVars>>

NextCoerce == FinishStream

SpecCoerce == InitCoerce /\ [][NextCoerce]_vars

\* the text has a well-formed occurrence from the marker at i to the
\* closing parenthesis at j: the marker, a name, "(", a JSON object and ")",
\* with nothing but white space between them
WellFormed(text, i, j) ==
    /\ text[i] = ToolCallToken
    /\ text[j] = ")"
    /\ \E a, b, c \in (i + 1)..(j - 1) :
         /\ a < b /\ b < c
         /\ text[a] \in Identifiers /\ text[b] = "(" /\ text[c] = JsonObject
         /\ \A k \in (i + 1)..(j - 1) : k \notin {a, b, c} => text[k] \in WhiteSpace

\* the well-formed occurrences of the text: the pairs of their ends
Occurrences(text) ==
    {p \in (1..Len(text)) \X (1..Len(text)) : p[1] < p[2] /\ WellFormed(text, p[1], p[2])}

\* C26: the recovery is applied only when the stream has no structured tool
\* call, and then each well-formed occurrence of "[tool_call] name({json})"
\* gives one tool call, in text order, and is taken out of the content,
\* which is then trimmed (None when nothing is left); malformed occurrences
\* give no call and stay in the content; a content without a well-formed
\* occurrence, and the content of a stream with structured tool calls, is
\* returned as it is.
C26_TextToolCallRecovery ==
    op.name = "stream_result"
        => LET a == op.msg[1]
               text == a.content[1]
               occ == IF a.content = None THEN {} ELSE Occurrences(text)
               rest == {i \in 1..Len(text) : \A p \in occ : i < p[1] \/ i > p[2]}
               Kept(n) == CHOOSE i \in rest : Cardinality({j \in rest : j <= i}) = n
               left == StripText(CollapseNewlines([n \in 1..Cardinality(rest) |-> text[Kept(n)]]))
           IN  /\ a.tool_calls # <<>>
                    => a.result = [content |-> a.content, tool_calls |-> a.tool_calls]
               /\ (a.tool_calls = <<>> /\ occ = {})
                    => a.result = [content |-> a.content, tool_calls |-> <<>>]
               /\ (a.tool_calls = <<>> /\ occ # {})
                    => /\ Len(a.result.tool_calls) = Cardinality(occ)
                       /\ \A p \in occ :
                            a.result.tool_calls[Cardinality({q \in occ : q[1] <= p[1]})].name
                                = text[SkipSpace(text, p[1] + 1)]
                       /\ a.result.content = IF left = <<>> THEN None ELSE Str(left)

\* a malformed occurrence, a well-formed one and a second well-formed one: two calls, f and g, and the malformed occurrence stays
C26_Witness ==
    /\ op.name = "stream_result"
    /\ op.msg[1].tool_calls = <<>>
    /\ op.msg[1].content =
         Str(<<ToolCallToken, "f", "(", "{", ")",
               ToolCallToken, "f", "(", JsonObject, ")",
               ToolCallToken, " ", "g", " ", "(", "\n", JsonObject, " ", ")">>)
    /\ op.msg[1].result =
         [content |-> Str(<<ToolCallToken, "f", "(", "{", ")">>),
          tool_calls |-> <<[name |-> "f", arguments |-> JsonObject],
                           [name |-> "g", arguments |-> JsonObject]>>]

----------------------------------------------------------------------------
(* SpecMcp: MCPManager.start and MCPManager.stop, and the _run_server task *)
(* of every configured server. A task is at its handshake, serving (at     *)
(* stop_event.wait()), closing (leaving its context managers) or done.     *)

notMcp == <<busSide, now, cfg, objs, cache, disk, turn, tasks, running, pending, served, asked,
            history, longTerm, waiters, futures, sends, llm, agent>>

\* the tools _run_server finds on server k: their MCPTool.name
ServerTools(k) == <<"mcp__s" \o ToString(k) \o "__t">>

\* start reaches server k: the handle, the ready future and the task
CreateTask(m, k) ==
    [m EXCEPT !.i = k, !.pc = "wait_ready", !.task[k] = "handshake", !.ready[k] = "pending"]

\* start is through with server m.i: the next server, or return all_tools
StartMovesOn(m) ==
    IF m.i < m.n THEN CreateTask(m, m.i + 1) ELSE [m EXCEPT !.pc = "started"]

\* Mutant: start has no except clause.
OnStartExceptionRaises(m) == [m EXCEPT !.pc = "raised"]

\* the except clause of start: cancel the task that has not ended, and
\* await it
OnStartException(m) ==
    IF m.task[m.i] # "done"
    THEN [m EXCEPT !.cancel[m.i] = TRUE, !.pc = "join"]
    ELSE StartMovesOn(m)

\* stop reaches position j of reversed(_handles): set the stop event and
\* await the task; after the last one, clear _handles and return
StopVisits(m, j) ==
    IF j = 0 THEN [m EXCEPT !.handles = <<>>, !.pc = "stopped"]
    ELSE [m EXCEPT !.i = j, !.stop_event[m.handles[j]] = TRUE,
                   !.visited = Append(@, m.handles[j]), !.pc = "stop_wait"]

\* Mutant: stop cancels the task and does not await it.
OnStopExceptionNoJoin(m) ==
    StopVisits([m EXCEPT !.cancel[m.handles[m.i]] = TRUE], m.i - 1)

\* the except clause of stop: cancel the task that has not ended, and await
\* it
OnStopException(m) ==
    IF m.task[m.handles[m.i]] # "done"
    THEN [m EXCEPT !.cancel[m.handles[m.i]] = TRUE, !.pc = "stop_join"]
    ELSE StopVisits(m, m.i - 1)

McpOp(name) == [name |-> name, key |-> "", msg |-> <<>>]

InitMcp ==
    /\ BusIdle
    /\ ConsIdle
    /\ now = 0
    /\ cfg = DefaultConfig
    /\ \E n \in 0..MaxServers : op = [name |-> "call", key |-> "", msg |-> <<n>>]

\* MCPManager.__init__: the enabled servers of the configuration
MCPManagerInit ==
    /\ mcp.pc = "none"
    /\ op.name = "call"
    /\ mcp' = [NoManager EXCEPT !.n = op.msg[1], !.pc = "idle"]
    /\ op' = McpOp("__init__")
    /\ UNCHANGED notMcp

\* start() is called
StartBegin ==
    /\ mcp.pc = "idle"
    /\ mcp' = StartMovesOn(mcp)
    /\ op' = McpOp("start")
    /\ UNCHANGED notMcp

\* _run_server of server k ends its handshake: the tools, the ready signal
\* unless the future is done already, then stop_event.wait()
ServerReady(k) ==
    /\ mcp.task[k] = "handshake"
    /\ ~mcp.cancel[k]
    /\ mcp' = [mcp EXCEPT !.tools[k] = ServerTools(k),
                          !.ready[k] = IF @ = "pending" THEN "result" ELSE @,
                          !.task[k] = "serving"]
    /\ op' = McpOp("ready")
    /\ UNCHANGED notMcp

\* the handshake of server k fails: ready.set_exception(e), and the task ends
ServerFails(k) ==
    /\ mcp.task[k] = "handshake"
    /\ ~mcp.cancel[k]
    /\ mcp' = [mcp EXCEPT !.ready[k] = IF @ = "pending" THEN "exception" ELSE @,
                          !.task[k] = "done"]
    /\ op' = McpOp("handshake_failed")
    /\ UNCHANGED notMcp

\* the connection of server k is lost while the task serves
ConnectionLost(k) ==
    /\ mcp.task[k] = "serving"
    /\ ~mcp.cancel[k]
    /\ mcp' = [mcp EXCEPT !.task[k] = "done"]
    /\ op' = McpOp("connection_lost")
    /\ UNCHANGED notMcp

\* the task of server k sees its stop event and leaves its context managers
ServerStops(k) ==
    /\ mcp.task[k] = "serving"
    /\ mcp.stop_event[k]
    /\ ~mcp.cancel[k]
    /\ mcp' = [mcp EXCEPT !.task[k] = "closing"]
    /\ op' = McpOp("stop_event")
    /\ UNCHANGED notMcp

\* the CancelledError reaches the task of server k
ServerCancelled(k) ==
    /\ mcp.cancel[k]
    /\ mcp.task[k] \in {"handshake", "serving", "closing"}
    /\ mcp' = [mcp EXCEPT !.cancel[k] = FALSE, !.task[k] = "closing"]
    /\ op' = McpOp("task_cancelled")
    /\ UNCHANGED notMcp

\* the task of server k has left its context managers: except BaseException,
\* and it ends
ServerEnds(k) ==
    /\ mcp.task[k] = "closing"
    /\ ~mcp.cancel[k]
    /\ mcp' = [mcp EXCEPT !.task[k] = "done"]
    /\ op' = McpOp("task_done")
    /\ UNCHANGED notMcp

\* wait_for(ready) returns: the handle and its tools are recorded
ReadyResult ==
    /\ mcp.pc = "wait_ready"
    /\ mcp.ready[mcp.i] = "result"
    /\ mcp' = StartMovesOn([mcp EXCEPT !.handles = Append(@, mcp.i),
                                       !.all_tools = @ \o mcp.tools[mcp.i]])
    /\ op' = McpOp("start_ready")
    /\ UNCHANGED notMcp

\* wait_for(ready) raises the exception of the handshake
ReadyException ==
    /\ mcp.pc = "wait_ready"
    /\ mcp.ready[mcp.i] = "exception"
    /\ mcp' = OnStartException(mcp)
    /\ op' = McpOp("start_failed")
    /\ UNCHANGED notMcp

\* the 30 seconds are over: wait_for cancels ready and raises TimeoutError
ReadyTimeout ==
    /\ mcp.pc = "wait_ready"
    /\ mcp.ready[mcp.i] = "pending"
    /\ mcp' = [mcp EXCEPT !.ready[mcp.i] = "cancelled", !.pc = "except"]
    /\ op' = McpOp("start_timeout")
    /\ UNCHANGED notMcp

\* the task that runs start() is cancelled while it waits for ready:
\* wait_for cancels ready and raises CancelledError
StartCancelled ==
    /\ mcp.pc = "wait_ready"
    /\ mcp.ready[mcp.i] = "pending"
    /\ mcp.cancelled = 0
    /\ mcp' = [mcp EXCEPT !.ready[mcp.i] = "cancelled", !.pc = "except", !.cancelled = mcp.i]
    /\ op' = McpOp("start_cancelled")
    /\ UNCHANGED notMcp

\* except (asyncio.TimeoutError, BaseException)
StartExcept ==
    /\ mcp.pc = "except"
    /\ mcp' = OnStartException(mcp)
    /\ op' = McpOp("start_except")
    /\ UNCHANGED notMcp

\* await handle.task ends
StartJoined ==
    /\ mcp.pc = "join"
    /\ mcp.task[mcp.i] = "done"
    /\ mcp' = StartMovesOn(mcp)
    /\ op' = McpOp("start_joined")
    /\ UNCHANGED notMcp

\* stop() is called after start() has returned
StopBegin ==
    /\ mcp.pc = "started"
    /\ mcp' = StopVisits(mcp, Len(mcp.handles))
    /\ op' = McpOp("stop")
    /\ UNCHANGED notMcp

\* wait_for(handle.task) returns: the task has ended
StopJoined ==
    /\ mcp.pc = "stop_wait"
    /\ mcp.task[mcp.handles[mcp.i]] = "done"
    /\ mcp' = StopVisits(mcp, mcp.i - 1)
    /\ op' = McpOp("stop_joined")
    /\ UNCHANGED notMcp

\* the 5 seconds are over and the task has not ended
StopTimeout ==
    /\ mcp.pc = "stop_wait"
    /\ mcp.task[mcp.handles[mcp.i]] # "done"
    /\ mcp' = OnStopException(mcp)
    /\ op' = McpOp("stop_timeout")
    /\ UNCHANGED notMcp

\* await handle.task ends after the cancel
StopJoinedCancelled ==
    /\ mcp.pc = "stop_join"
    /\ mcp.task[mcp.handles[mcp.i]] = "done"
    /\ mcp' = StopVisits(mcp, mcp.i - 1)
    /\ op' = McpOp("stop_joined_cancelled")
    /\ UNCHANGED notMcp

NextMcp ==
    \/ MCPManagerInit
    \/ StartBegin
    \/ \E k \in McpServers : ServerReady(k)
    \/ \E k \in McpServers : ServerFails(k)
    \/ \E k \in McpServers : ConnectionLost(k)
    \/ \E k \in McpServers : ServerStops(k)
    \/ \E k \in McpServers : ServerCancelled(k)
    \/ \E k \in McpServers : ServerEnds(k)
    \/ ReadyResult
    \/ ReadyException
    \/ ReadyTimeout
    \/ StartCancelled
    \/ StartExcept
    \/ StartJoined
    \/ StopBegin
    \/ StopJoined
    \/ StopTimeout
    \/ StopJoinedCancelled

SpecMcp == InitMcp /\ [][NextMcp]_vars

\* start is through with server k
StartPassed(k) ==
    \/ mcp.pc \in {"wait_ready", "except", "join"} /\ k < mcp.i
    \/ mcp.pc = "started" /\ k <= mcp.n

Member(x, seq) == \E j \in 1..Len(seq) : seq[j] = x

\* C27: start does not raise; a server that start is through with has its
\* handle recorded and its tools returned if and only if its ready signal
\* had a result, and otherwise its task has ended and none of its tools is
\* returned; when start returns, every configured server was started.
C27_StartNonFatalSelective ==
    /\ mcp.pc # "raised"
    /\ \A k \in 1..mcp.n :
         StartPassed(k)
             => /\ Member(k, mcp.handles) <=> mcp.ready[k] = "result"
                /\ Member(ServerTools(k)[1], mcp.all_tools) <=> mcp.ready[k] = "result"
                /\ mcp.ready[k] # "result"
                     => mcp.ready[k] \in {"exception", "cancelled"} /\ mcp.task[k] = "done"
    /\ mcp.pc = "started" => \A k \in 1..mcp.n : mcp.task[k] # "none"

\* the first server timed out and its task was cancelled, the second one is
\* recorded and its tools are returned
C27_Witness ==
    /\ mcp.pc = "started"
    /\ mcp.n = 2
    /\ mcp.cancelled = 0
    /\ mcp.ready = [k \in McpServers |-> IF k = 1 THEN "cancelled" ELSE "result"]
    /\ mcp.task[1] = "done"
    /\ mcp.handles = <<2>>
    /\ mcp.all_tools = ServerTools(2)

\* C28: stop does not raise; it visits the recorded servers in reverse
\* order, sets the stop event of each, and goes on to the next one only
\* when the task has ended; when stop returns, the task of every configured
\* server has ended and _handles is empty.
C28_StopTerminatesAll ==
    /\ mcp.pc # "raised"
    /\ mcp.pc \in {"stop_wait", "stop_join"}
         => /\ \A j \in 1..Len(mcp.visited) :
                 /\ mcp.visited[j] = mcp.handles[Len(mcp.handles) + 1 - j]
                 /\ mcp.stop_event[mcp.visited[j]]
                 /\ j < Len(mcp.visited) => mcp.task[mcp.visited[j]] = "done"
            /\ Len(mcp.visited) = Len(mcp.handles) + 1 - mcp.i
    /\ mcp.pc = "stopped"
         => /\ mcp.handles = <<>>
            /\ \A k \in 1..mcp.n : mcp.task[k] = "done"
            /\ \A k \in 1..mcp.n : mcp.ready[k] = "result" <=> Member(k, mcp.visited)
            /\ \A j \in 1..Len(mcp.visited) : mcp.stop_event[mcp.visited[j]]
            /\ \A j \in 1..(Len(mcp.visited) - 1) : mcp.visited[j] > mcp.visited[j + 1]

\* two servers were stopped, the second one first, and the last task ended
\* only after the join timeout and the cancel
C28_Witness ==
    /\ mcp.pc = "stopped"
    /\ mcp.visited = <<2, 1>>
    /\ op.name = "stop_joined_cancelled"

\* C29: a start() that is cancelled while it waits for a server's ready
\* signal ends at this server: it neither goes on to the next server nor
\* returns the tools.
C29_StartCancellationTakesEffect ==
    mcp.cancelled # 0
        => mcp.i = mcp.cancelled /\ mcp.pc \in {"except", "join", "cancelled"}

----------------------------------------------------------------------------
(* SpecRun: AgentLoop.run() and AgentLoop.stop(). The steps of run() are   *)
(* what lies between its awaits: the bounded wait for an inbound message   *)
(* and the turn.                                                           *)

MaxArrivals == 3

notAgent == <<turnLog, direct, now, cfg, objs, cache, disk, turn, tasks, running, pending, served,
              asked, history, longTerm, waiters, futures, sends, llm, mcp>>

RunOp(name) == [name |-> name, key |-> "", msg |-> <<>>]

\* Mutant: the loop does not read the flag.
WhileRunningForever(a) == [a EXCEPT !.pc = "consume"]

\* while self._running: the next bounded wait, or run() returns
WhileRunning(a) ==
    IF a.running THEN [a EXCEPT !.pc = "consume"] ELSE [a EXCEPT !.pc = "returned"]

InitRun ==
    /\ BusIdle
    /\ ConsIdle
    /\ now = 0
    /\ cfg = DefaultConfig
    /\ op = RunOp("__init__")

\* a channel publishes an inbound message
Arrive ==
    /\ agent.arrivals < MaxArrivals
    /\ \E ch \in Channels, c \in ChatIds :
         LET msg == NewInbound(ch, "alice", c, "one", <<>>, agent.arrivals)
         IN  /\ BusPublish(msg)
             /\ op' = [name |-> "publish_inbound", key |-> SessionKey(msg), msg |-> <<msg>>]
    /\ agent' = [agent EXCEPT !.arrivals = @ + 1]
    /\ UNCHANGED <<cur, outbound, notAgent>>

\* run() begins: the flag is set, and the loop is entered
RunBegin ==
    /\ agent.pc = "idle"
    /\ agent' = WhileRunning([agent EXCEPT !.running = TRUE])
    /\ op' = RunOp("run")
    /\ UNCHANGED <<inbound, active, buffer, cur, outbound, notAgent>>

\* the bounded wait ends with a message: the turn begins
ConsumeReturns ==
    /\ agent.pc = "consume"
    /\ BusConsume
    /\ cur' = <<Head(inbound)>>
    /\ agent' = [agent EXCEPT !.pc = "turn", !.after = IF agent.stop_at # "" THEN @ + 1 ELSE @]
    /\ op' = [name |-> "consume_inbound", key |-> SessionKey(Head(inbound)),
              msg |-> <<Head(inbound)>>]
    /\ UNCHANGED <<outbound, notAgent>>

\* the bounded wait ends after one second without a message
ConsumeTimesOut ==
    /\ agent.pc = "consume"
    /\ inbound = <<>>
    /\ agent' = WhileRunning(agent)
    /\ op' = RunOp("timeout")
    /\ UNCHANGED <<inbound, active, buffer, cur, outbound, notAgent>>

\* the turn ends, with a response, without one or with an exception that
\* run() reports; the response is published and the loop goes round
TurnEnds ==
    /\ agent.pc = "turn"
    /\ \E o \in TurnOutcomes :
         /\ outbound' = outbound \o RunResponse(cur[1], o)
         /\ op' = [name |-> "turn_end", key |-> o, msg |-> cur]
    /\ cur' = <<>>
    /\ agent' = WhileRunning(agent)
    /\ UNCHANGED <<inbound, active, buffer, notAgent>>

\* stop() is called
Stop ==
    /\ agent.stop_at = ""
    /\ agent' = [agent EXCEPT !.running = FALSE, !.stop_at = agent.pc]
    /\ op' = RunOp("stop")
    /\ UNCHANGED <<inbound, active, buffer, cur, outbound, notAgent>>

NextRun ==
    \/ Arrive
    \/ RunBegin
    \/ ConsumeReturns
    \/ ConsumeTimesOut
    \/ TurnEnds
    \/ Stop

SpecRun == InitRun /\ [][NextRun]_vars

\* the task of run() is scheduled, the bounded wait ends, and the turn ends
SpecRunFair ==
    /\ SpecRun
    /\ WF_vars(RunBegin)
    /\ WF_vars(ConsumeReturns)
    /\ WF_vars(ConsumeTimesOut)
    /\ WF_vars(TurnEnds)

\* C30 as stated: after stop() is called, run() eventually returns, at the
\* latest when the turn or the bounded wait in progress ends: it begins no
\* turn after the call.
C30_Shutdown ==
    /\ [](agent.stop_at # "" => agent.after = 0)
    /\ (agent.stop_at # "") ~> (agent.pc = "returned")

\* C30, amended: after stop() is called while run() waits for a message or
\* is in a turn, run() eventually returns; it begins no turn after a stop()
\* called during a turn, and at most one after a stop() called during the
\* bounded wait: the turn of the message that this wait returned.
C30_ShutdownAmended ==
    /\ [](agent.stop_at = "turn" => agent.after = 0)
    /\ [](agent.stop_at = "consume" => agent.after <= 1)
    /\ (agent.stop_at \in {"consume", "turn"}) ~> (agent.pc = "returned")

\* stop() was called during the bounded wait, the wait returned a message,
\* and run() returned after the turn of this message
C30_Witness ==
    /\ agent.stop_at = "consume"
    /\ agent.after = 1
    /\ agent.pc = "returned"
    /\ op.name = "turn_end"

----------------------------------------------------------------------------
(* Further claims about the MessageBus, checked under SpecBus *)

\* m is a merged follow-up
IsMerged(m) == "collected_count" \in DOMAIN m.metadata

\* C31: complete_inbound_turn puts the merged follow-up of its session
\* behind every message that waits in the inbound queue, and no step takes
\* a message from anywhere but the head or adds one anywhere but the tail;
\* so a message of another session that was enqueued before the turn was
\* completed is consumed before the merged follow-up.
C31_FollowUpOrdering ==
    [][/\ (op'.name = "complete_inbound_turn" /\ buffer[op'.key] # <<>>)
           => /\ Len(inbound') = Len(inbound) + 1
              /\ SubSeq(inbound', 1, Len(inbound)) = inbound
              /\ IsMerged(inbound'[Len(inbound')])
              /\ SessionKey(inbound'[Len(inbound')]) = op'.key
       /\ (op'.name = "complete_inbound_turn" /\ buffer[op'.key] = <<>>) => inbound' = inbound
       /\ op'.name = "complete_stale" => inbound' = inbound
       /\ op'.name = "consume_inbound" => inbound = op'.msg \o inbound'
       /\ op'.name = "publish_inbound"
           => inbound' = inbound \/ inbound' = Append(inbound, op'.msg[1])]_vars

\* a message of another session, enqueued during the turn of session K, has
\* just been consumed, and the merged follow-up of K still waits
C31_Witness ==
    /\ op.name = "consume_inbound"
    /\ ~IsMerged(op.msg[1])
    /\ \E j \in 1..Len(inbound) :
         /\ IsMerged(inbound[j])
         /\ SessionKey(inbound[j]) # op.key
         /\ \A i \in 1..Len(inbound[j].metadata.collected_messages) :
              inbound[j].metadata.collected_messages[i].metadata.message_id
                  < op.msg[1].metadata.message_id

----------------------------------------------------------------------------
(* Further claims about run(), checked under SpecRunFair *)

\* C32: when _process_message raises for the consumed message, run()
\* publishes one error message to this message's channel and chat_id and
\* goes back to the head of its loop; run() returns only after stop(); and
\* a message that waits after a failed turn is consumed, unless stop() is
\* called.
C32_FailingTurnNotFatal ==
    /\ [][(op'.name = "turn_end" /\ op'.key = "raise")
            => /\ outbound' = Append(outbound, [channel |-> cur[1].channel,
                                                chat_id |-> cur[1].chat_id,
                                                kind |-> "error"])
               /\ agent'.pc = IF agent.running THEN "consume" ELSE "returned"]_vars
    /\ [](agent.pc = "returned" => agent.stop_at # "")
    /\ (op.name = "turn_end" /\ op.key = "raise" /\ inbound # <<>>)
           ~> (op.name = "consume_inbound" \/ agent.stop_at # "")

\* after a turn that raised, run() has processed a message of the other
\* chat and published its reply, and stop() was not called
C32_Witness ==
    /\ agent.stop_at = ""
    /\ op.name = "turn_end"
    /\ Len(outbound) = 2
    /\ outbound[1].kind = "error"
    /\ outbound[2].kind = "reply"
    /\ outbound[1].chat_id # outbound[2].chat_id

----------------------------------------------------------------------------
(* SpecPreflight: _process_message for the ordinary messages of one chat:  *)
(* the slash commands, and the LLM path, which is one step up to the agent *)
(* loop and one step after it.                                             *)

MaxProcessed == 2
MaxContentLen == 2

PreflightTokens == {" ", "/help", "/HELP", "/new", "/New", "hi"}
PreflightContents == UNION {[1..n -> PreflightTokens] : n \in 0..MaxContentLen}

\* str.lower() of one token
Lower(t) == IF t = "/HELP" THEN "/help" ELSE IF t = "/New" THEN "/new" ELSE t

\* Mutant: the content is not trimmed.
CommandNoStrip(content) == [i \in 1..Len(content) |-> Lower(content[i])]

\* cmd = msg.content.strip().lower()
Command(content) ==
    LET stripped == StripText(content)
    IN  [i \in 1..Len(stripped) |-> Lower(stripped[i])]

HelpText == "nanobot commands: /new - Start a new conversation, /help - Show available commands"

InitPreflight ==
    /\ BusIdle
    /\ ConsIdle
    /\ now = 0
    /\ cfg = DefaultConfig
    /\ op = [name |-> "init", key |-> "", msg |-> NoArg]

\* _process_message(msg) up to its first await or its return, and run()
\* publishes what it returns
ProcessMessage ==
    /\ turn = <<>>
    /\ Len(outbound) < MaxProcessed
    /\ \E content \in PreflightContents :
         LET k == "telegram:c1"
             g == GetOrCreate(objs, cache, disk, k)
             session == g.objs[g.id][1]
             cmd == Command(content)
             cleared == SessionClear(session)
             cache1 == Invalidate(g.cache, k)
             tasks1 == tasks (+) SetToBag({ArchiveTask(k, session.messages)})
         IN  /\ IF cmd = <<"/new">>
                THEN /\ disk' = SessionSave(disk, cleared)
                     /\ cache' = cache1
                     /\ tasks' = tasks1
                     /\ objs' = Collect([g.objs EXCEPT ![g.id] = <<cleared>>], cache1, tasks1, <<>>)
                     /\ outbound' = Append(outbound,
                                           Outbound("telegram", "c1", <<NewSessionReply>>, FALSE))
                     /\ UNCHANGED turn
                ELSE IF cmd = <<"/help">>
                THEN /\ objs' = g.objs
                     /\ cache' = g.cache
                     /\ outbound' = Append(outbound, Outbound("telegram", "c1", <<HelpText>>, FALSE))
                     /\ UNCHANGED <<disk, tasks, turn>>
                ELSE /\ objs' = g.objs
                     /\ cache' = g.cache
                     /\ turn' = <<[key |-> k, obj |-> g.id, content |-> content]>>
                     /\ UNCHANGED <<disk, tasks, outbound>>
             /\ op' = [name |-> "process_message", key |-> k, msg |-> <<[content |-> content]>>]
    /\ UNCHANGED <<inbound, active, buffer, cur, turnLog, direct, now, cfg, extVars,
                   running, pending, served, asked, history, longTerm>>

\* the agent loop returns after its LLM calls: the turn is appended and
\* saved, consolidation is scheduled when the trigger holds, and run()
\* publishes the reply
AgentLoopReturns ==
    /\ turn # <<>>
    /\ LET k == turn[1].key
           i == turn[1].obj
           session == SaveSessionWithTools(objs[i][1], turn[1].content, <<"reply">>, <<>>,
                                           "toolsum_1")
           trigger == ShouldScheduleConsolidation(session, now)
           st == [running |-> running, pending |-> pending, tasks |-> tasks]
           st1 == IF trigger THEN ScheduleConsolidation(st, k, i) ELSE st
       IN  /\ disk' = SessionSave(disk, session)
           /\ tasks' = st1.tasks
           /\ running' = st1.running
           /\ pending' = st1.pending
           /\ objs' = Collect([objs EXCEPT ![i] = <<session>>], cache, st1.tasks, <<>>)
           /\ outbound' = Append(outbound, Outbound("telegram", "c1", <<"reply">>, FALSE))
           /\ op' = [name |-> "agent_loop_returns", key |-> k,
                     msg |-> <<[content |-> turn[1].content]>>]
    /\ served' = [served EXCEPT !.calls = @ + 1]
    /\ turn' = <<>>
    /\ UNCHANGED <<inbound, active, buffer, cur, turnLog, direct, now, cfg, extVars, cache,
                   asked, history, longTerm>>

NextPreflight ==
    \/ ProcessMessage
    \/ AgentLoopReturns

SpecPreflight == InitPreflight /\ [][NextPreflight]_vars

\* the content is the word w, in any case, with white space around it at most
IsCommand(content, w) ==
    \E i \in 1..Len(content) :
        /\ Lower(content[i]) = w
        /\ \A j \in 1..Len(content) : j # i => content[j] \in WhiteSpace

\* the Session of key k as get_or_create gives it in the state (o, c, d)
SessionOf(o, c, d, k) ==
    LET g == GetOrCreate(o, c, d, k) IN g.objs[g.id][1]

\* C33: /help is answered with the help text and leaves the session's
\* messages and watermarks, the persisted session, the LLM call count and
\* the consolidation tasks as they are; /new enters no agent loop and makes
\* no LLM call of a turn; every other content enters the agent loop, and
\* when the loop returns an LLM call was made and the session has the
\* content as a new user record.
C33_SlashCommandPreflight ==
    [][LET k == "telegram:c1"
           content == op'.msg[1].content
           before == SessionOf(objs, cache, disk, k)
           after == SessionOf(objs', cache', disk', k)
       IN  /\ (op'.name = "process_message" /\ IsCommand(content, "/help"))
                => /\ outbound' = Append(outbound,
                                         Outbound("telegram", "c1", <<HelpText>>, FALSE))
                   /\ after = before
                   /\ disk' = disk
                   /\ served' = served
                   /\ <<tasks', running', pending'>> = <<tasks, running, pending>>
                   /\ turn' = <<>>
           /\ (op'.name = "process_message" /\ IsCommand(content, "/new"))
                => served' = served /\ turn' = <<>>
           /\ (op'.name = "process_message" /\ ~IsCommand(content, "/help")
                    /\ ~IsCommand(content, "/new"))
                => /\ turn' # <<>>
                   /\ turn'[1].content = content
                   /\ outbound' = outbound
           /\ op'.name = "agent_loop_returns"
                => /\ served'.calls = served.calls + 1
                   /\ Len(after.messages) > Len(before.messages)
                   /\ after.messages[Len(before.messages) + 1] = UserRecord(content)
                   /\ disk'[k] = <<after>>]_vars

\* " /HELP" has just been answered for a session that holds a turn
C33_Witness ==
    /\ op.name = "process_message"
    /\ op.msg[1].content = <<" ", "/HELP">>
    /\ disk["telegram:c1"] # <<>>
    /\ Len(disk["telegram:c1"][1].messages) = 2
    /\ Len(outbound) = 2
    /\ outbound[2].content = <<HelpText>>

----------------------------------------------------------------------------
(* SpecSystem: run() with a message of channel "system". A chat_id is a    *)
(* text whose tokens are colons and words; the turn ends with a final      *)
(* content of the agent loop, or it raises.                                *)

SystemChatIds ==
    {<<"telegram", ":", "c1">>, <<"telegram", ":", "a", ":", "b">>, <<"cli", ":", "direct">>,
     <<"discord", ":", "c2">>, <<"direct">>}

\* the final content of _run_agent_loop: None, a text, the empty text after
\* the message tool, a text with the silent marker
SystemFinals == {None, Str(<<"hi">>), Str(<<>>), Str(<<"ok", " ", SilentMarker>>)}

\* the ways the turn goes: the agent loop raises, or returns a final content
SystemOutcomes ==
    {[raises |-> TRUE, final_content |-> None]}
        \cup [raises : {FALSE}, final_content : SystemFinals]

\* the text of the tokens
Concat(tokens) == JoinWith("", tokens)

\* Mutant: the chat_id is split at its last colon.
SplitOriginAtLastColon(chat_id) ==
    LET colons == {i \in 1..Len(chat_id) : chat_id[i] = ":"}
        last == CHOOSE i \in colons : \A j \in colons : j <= i
    IN  IF colons # {}
        THEN [channel |-> Concat(SubSeq(chat_id, 1, last - 1)),
              chat_id |-> Concat(SubSeq(chat_id, last + 1, Len(chat_id)))]
        ELSE [channel |-> "cli", chat_id |-> Concat(chat_id)]

\* origin_channel, origin_chat_id = msg.chat_id.split(":", 1), or "cli" and
\* the chat_id
SplitOrigin(chat_id) ==
    LET colons == {i \in 1..Len(chat_id) : chat_id[i] = ":"}
        first == CHOOSE i \in colons : \A j \in colons : i <= j
    IN  IF colons # {}
        THEN [channel |-> Concat(SubSeq(chat_id, 1, first - 1)),
              chat_id |-> Concat(SubSeq(chat_id, first + 1, Len(chat_id)))]
        ELSE [channel |-> "cli", chat_id |-> Concat(chat_id)]

\* _process_system_message once the agent loop has returned final_content:
\* the session key, the user content that is saved, and the response
ProcessSystemMessage(msg, final_content) ==
    LET origin == SplitOrigin(msg.chat_id)
        given == IF final_content = None
                 THEN Str(<<"Background task completed, but summary generation returned no text.">>)
                 ELSE final_content
        silent_requested == ContainsSilentMarker(given)
        stripped == StripSilentMarker(given)
        final == IF stripped = None THEN <<"Background task completed.">> ELSE stripped[1]
    IN  [session_key |-> origin.channel \o ":" \o origin.chat_id,
         user_content |-> Str(<<"[System: " \o msg.sender_id \o "] ">> \o msg.content),
         response |-> IF silent_requested
                      THEN Str(Outbound(origin.channel, origin.chat_id, <<>>, TRUE))
                      ELSE IF final = <<>> THEN None
                      ELSE Str(Outbound(origin.channel, origin.chat_id, final, FALSE))]

\* run() around _process_message: what is saved and what is published when
\* the turn goes as outcome says
RunSystemTurn(msg, outcome) ==
    IF outcome.raises
    THEN [session_key |-> SplitOrigin(msg.chat_id).channel \o ":" \o SplitOrigin(msg.chat_id).chat_id,
          user_content |-> None,
          published |-> <<Outbound(msg.channel, Concat(msg.chat_id),
                                   <<"Sorry, I encountered an error">>, FALSE)>>]
    ELSE LET r == ProcessSystemMessage(msg, outcome.final_content)
         IN  [session_key |-> r.session_key,
              user_content |-> r.user_content,
              published |-> IF r.response = None THEN <<>> ELSE r.response]

InitSystem ==
    /\ BusIdle
    /\ ConsIdle
    /\ now = 0
    /\ cfg = DefaultConfig
    /\ \E chat_id \in SystemChatIds, sender_id \in {"subagent", "cron"},
          content \in {<<"done">>, <<"/help">>} :
         op = [name |-> "call", key |-> "",
               msg |-> <<[channel |-> "system", sender_id |-> sender_id, chat_id |-> chat_id,
                          content |-> content]>>]

\* run() consumes the system message, the turn runs, and run() publishes
SystemTurn ==
    /\ op.name = "call"
    /\ \E outcome \in SystemOutcomes :
         LET r == RunSystemTurn(op.msg[1], outcome)
         IN  /\ outbound' = outbound \o r.published
             /\ op' = [name |-> "system_turn", key |-> r.session_key,
                       msg |-> <<[inbound |-> op.msg[1], outcome |-> outcome, result |-> r]>>]
    /\ UNCHANGED <<inbound, active, buffer, cur, turnLog, direct, now, consVars>>

NextSystem == SystemTurn

SpecSystem == InitSystem /\ [][NextSystem]_vars

\* the texts before and after the first colon of chat_id; "cli" and the
\* chat_id when it has no colon
IsOrigin(chat_id, channel, chat) ==
    \/ /\ \A i \in 1..Len(chat_id) : chat_id[i] # ":"
       /\ channel = "cli"
       /\ chat = Concat(chat_id)
    \/ \E i \in 1..Len(chat_id) :
         /\ chat_id[i] = ":"
         /\ \A j \in 1..(i - 1) : chat_id[j] # ":"
         /\ channel = Concat([j \in 1..(i - 1) |-> chat_id[j]])
         /\ chat = Concat([j \in 1..(Len(chat_id) - i) |-> chat_id[i + j]])

\* C34: a message of channel "system" is processed against the session of
\* the origin that its chat_id names, the user content that is saved begins
\* with "[System: <sender_id>] ", and every outbound message of the turn is
\* addressed to the origin, none to channel "system".
C34_SystemMessages ==
    op.name = "system_turn"
        => LET a == op.msg[1]
           IN  \E channel \in {"telegram", "cli", "discord"}, chat \in {"c1", "a:b", "direct", "c2"} :
                 /\ IsOrigin(a.inbound.chat_id, channel, chat)
                 /\ a.result.session_key = channel \o ":" \o chat
                 /\ a.result.user_content # None
                      => a.result.user_content[1]
                             = <<"[System: " \o a.inbound.sender_id \o "] ">> \o a.inbound.content
                 /\ \A i \in 1..Len(a.result.published) :
                      /\ a.result.published[i].channel = channel
                      /\ a.result.published[i].chat_id = chat
                      /\ a.result.published[i].channel # "system"

\* C34 for the turns that do not raise
C34_ReturnedOutboundGoesToOrigin ==
    (op.name = "system_turn" /\ op.msg[1].outcome.raises) \/ C34_SystemMessages

----------------------------------------------------------------------------
(* SpecMessageTool: MessageTool.execute. A text argument is a sequence of  *)
(* tokens, the empty one for None and for ""; message_id is <<>> for None, *)
(* else <<n>>; the returned string is the sequence of its parts.           *)

\* the arguments of execute, the defaults set_context left, and the send
\* callback: none, one that returns, one that raises
ExecuteInputs ==
    [content : {<<>>, <<"hi">>},
     channel : {<<>>, <<"telegram">>, <<"discord">>},
     chat_id : {<<>>, <<"c1">>},
     default_channel : {<<>>, <<"telegram">>},
     default_chat_id : {<<>>, <<"c1">>},
     media : {<<>>, <<"a.png">>},
     sticker_id : {<<>>, <<" ">>, <<"s1">>},
     reaction : {<<>>, <<" ">>, <<"+1">>},
     message_id : {<<>>, <<0>>, <<7>>},
     callback : {"none", "returns", "raises"}]

\* a or b
Or(a, b) == IF a # <<>> THEN a ELSE b

ErrorText(text) == <<"Error:", text>>

\* Mutant: a reaction is accepted without a message_id.
ExecuteNoMessageIdCheck(a) ==
    LET channel == Or(a.channel, a.default_channel)
        chat_id == Or(a.chat_id, a.default_chat_id)
        sticker_id == StripText(a.sticker_id)
        reaction == StripText(a.reaction)
        msg == [channel |-> channel, chat_id |-> chat_id, content |-> a.content,
                media |-> a.media, sticker_id |-> sticker_id, reaction |-> reaction,
                reaction_message_id |-> a.message_id]
    IN  IF channel = <<>> \/ chat_id = <<>>
        THEN [text |-> ErrorText(" No target channel/chat specified"), sent |-> <<>>]
        ELSE IF a.callback = "none"
        THEN [text |-> ErrorText(" Message sending not configured"), sent |-> <<>>]
        ELSE IF a.content = <<>> /\ a.media = <<>> /\ sticker_id = <<>> /\ reaction = <<>>
        THEN [text |-> ErrorText(" Provide at least one of content, media, sticker_id, or reaction"),
              sent |-> <<>>]
        ELSE IF sticker_id # <<>> /\ channel # <<"telegram">>
        THEN [text |-> ErrorText(" sticker_id is only supported on telegram channel"), sent |-> <<>>]
        ELSE IF reaction # <<>> /\ channel # <<"telegram">>
        THEN [text |-> ErrorText(" reaction is only supported on telegram channel"), sent |-> <<>>]
        ELSE IF a.callback = "raises"
        THEN [text |-> <<"Error sending message: ", "boom">>, sent |-> <<msg>>]
        ELSE [text |-> <<"Message delivered to ">> \o channel \o <<":">> \o chat_id,
              sent |-> <<msg>>]

\* MessageTool.execute with arguments and tool state a: the string it
\* returns, and the messages the send callback was called with
Execute(a) ==
    LET channel == Or(a.channel, a.default_channel)
        chat_id == Or(a.chat_id, a.default_chat_id)
        sticker_id == StripText(a.sticker_id)
        reaction == StripText(a.reaction)
        message_id == IF a.message_id = <<0>> THEN <<>> ELSE a.message_id
        msg == [channel |-> channel, chat_id |-> chat_id, content |-> a.content,
                media |-> a.media, sticker_id |-> sticker_id, reaction |-> reaction,
                reaction_message_id |-> a.message_id]
    IN  IF channel = <<>> \/ chat_id = <<>>
        THEN [text |-> ErrorText(" No target channel/chat specified"), sent |-> <<>>]
        ELSE IF a.callback = "none"
        THEN [text |-> ErrorText(" Message sending not configured"), sent |-> <<>>]
        ELSE IF a.content = <<>> /\ a.media = <<>> /\ sticker_id = <<>> /\ reaction = <<>>
        THEN [text |-> ErrorText(" Provide at least one of content, media, sticker_id, or reaction"),
              sent |-> <<>>]
        ELSE IF sticker_id # <<>> /\ channel # <<"telegram">>
        THEN [text |-> ErrorText(" sticker_id is only supported on telegram channel"), sent |-> <<>>]
        ELSE IF reaction # <<>> /\ message_id = <<>>
        THEN [text |-> ErrorText(" reaction requires message_id"), sent |-> <<>>]
        ELSE IF reaction # <<>> /\ channel # <<"telegram">>
        THEN [text |-> ErrorText(" reaction is only supported on telegram channel"), sent |-> <<>>]
        ELSE IF a.callback = "raises"
        THEN [text |-> <<"Error sending message: ", "boom">>, sent |-> <<msg>>]
        ELSE [text |-> <<"Message delivered to ">> \o channel \o <<":">> \o chat_id,
              sent |-> <<msg>>]

InitMessageTool ==
    /\ BusIdle
    /\ ConsIdle
    /\ now = 0
    /\ cfg = DefaultConfig
    /\ \E a \in ExecuteInputs : op = [name |-> "call", key |-> "", msg |-> <<a>>]

\* the agent loop runs the message tool
CallExecute ==
    /\ op.name = "call"
    /\ op' = [name |-> "execute", key |-> "",
              msg |-> <<[args |-> op.msg[1], result |-> Execute(op.msg[1])]>>]
    /\ UNCHANGED <<busSide, now, consVars>>

NextMessageTool == CallExecute

SpecMessageTool == InitMessageTool /\ [][NextMessageTool]_vars

\* the text argument is given: it is more than white space
Given(text) == \E i \in 1..Len(text) : text[i] \notin WhiteSpace

\* C35: execute returns a string that starts with "Error:" and does not
\* call the send callback when the resolved channel or chat_id is empty,
\* when there is no send callback, when none of content, media, sticker_id
\* and reaction is given, when a sticker or a reaction is for another
\* channel than telegram, and when a reaction comes without a message_id;
\* and a send callback that raises makes execute return a string.
C35_MessageToolInputErrors ==
    op.name = "execute"
        => LET a == op.msg[1].args
               r == op.msg[1].result
               channel == IF a.channel # <<>> THEN a.channel ELSE a.default_channel
               chat_id == IF a.chat_id # <<>> THEN a.chat_id ELSE a.default_chat_id
               bad == \/ channel = <<>>
                      \/ chat_id = <<>>
                      \/ a.callback = "none"
                      \/ ~Given(a.content) /\ a.media = <<>> /\ ~Given(a.sticker_id)
                            /\ ~Given(a.reaction)
                      \/ Given(a.sticker_id) /\ channel # <<"telegram">>
                      \/ Given(a.reaction) /\ channel # <<"telegram">>
                      \/ Given(a.reaction) /\ a.message_id = <<>>
           IN  /\ bad => r.text[1] = "Error:" /\ r.sent = <<>>
               /\ r.text # <<>>
               /\ a.callback = "raises" /\ r.sent # <<>> => r.text[1] = "Error sending message: "

\* a reaction for a telegram chat without a message_id, with a content and
\* a send callback: the error is returned and nothing is sent
C35_Witness ==
    /\ op.name = "execute"
    /\ op.msg[1].args.channel = <<"telegram">>
    /\ op.msg[1].args.chat_id = <<"c1">>
    /\ op.msg[1].args.content = <<"hi">>
    /\ op.msg[1].args.reaction = <<"+1">>
    /\ op.msg[1].args.message_id = <<>>
    /\ op.msg[1].args.callback = "returns"
    /\ op.msg[1].result = [text |-> <<"Error:", " reaction requires message_id">>, sent |-> <<>>]

----------------------------------------------------------------------------
(* SpecAccount: the three inbound operations of the MessageBus called in   *)
(* any order by any caller. In this specification turnLog lists every      *)
(* message publish_inbound accepted and cur every message consume_inbound  *)
(* returned, both oldest first.                                            *)

MaxAccepted == 4

InitAccount ==
    /\ BusIdle
    /\ ConsIdle
    /\ now = 0
    /\ cfg = DefaultConfig
    /\ op = [name |-> "init", key |-> "", msg |-> NoArg]

\* a channel calls publish_inbound
AnyPublish ==
    /\ now < MaxAccepted
    /\ \E c \in ChatIds, s \in SenderIds :
         LET msg == NewInbound("telegram", s, c, "one", <<>>, now)
         IN  /\ BusPublish(msg)
             /\ turnLog' = Append(turnLog, msg)
             /\ op' = [name |-> "publish_inbound", key |-> SessionKey(msg), msg |-> <<msg>>]
    /\ now' = now + 1
    /\ UNCHANGED <<cur, agentVars, consVars>>

\* a call of consume_inbound returns
AnyConsume ==
    /\ BusConsume
    /\ cur' = Append(cur, Head(inbound))
    /\ op' = [name |-> "consume_inbound", key |-> SessionKey(Head(inbound)),
              msg |-> <<Head(inbound)>>]
    /\ UNCHANGED <<now, turnLog, agentVars, consVars>>

\* complete_inbound_turn is called with a message of any session
AnyComplete ==
    /\ \E k \in SessionKeys :
         /\ BusComplete(k)
         /\ op' = [name |-> "complete_inbound_turn", key |-> k, msg |-> NoArg]
    /\ UNCHANGED <<now, cur, turnLog, agentVars, consVars>>

NextAccount ==
    \/ AnyPublish
    \/ AnyConsume
    \/ AnyComplete

SpecAccount == InitAccount /\ [][NextAccount]_vars

\* the number of places of the list s that hold m itself
Places(s, m) == Cardinality({j \in 1..Len(s) : ~IsMerged(s[j]) /\ s[j] = m})

\* what the published message m looks like inside collected_messages
Collected(m) ==
    [sender_id |-> m.sender_id, content |-> m.content,
     timestamp |-> IsoFormat(m.timestamp.t), media |-> m.media, metadata |-> m.metadata]

\* the number of entries of merged messages of the list s that hold m
MergedPlaces(s, m) ==
    Cardinality({x \in {<<j, i>> : j \in 1..Len(s), i \in 1..MaxAccepted} :
                    /\ IsMerged(s[x[1]])
                    /\ SessionKey(s[x[1]]) = SessionKey(m)
                    /\ x[2] <= Len(s[x[1]].metadata.collected_messages)
                    /\ s[x[1]].metadata.collected_messages[x[2]] = Collected(m)})

RECURSIVE Sum(_, _)
\* f[1] + ... + f[n]
Sum(f, n) == IF n = 0 THEN 0 ELSE f[n] + Sum(f, n - 1)

\* the number of messages the list s stands for: one for a message, the
\* number of collected messages for a merged one
Size(s) ==
    Sum([j \in 1..Len(s) |-> IF IsMerged(s[j]) THEN Len(s[j].metadata.collected_messages)
                               ELSE 1], Len(s))

\* the session keys as a list
KeyList == <<"telegram:c1", "telegram:c2">>

\* C36: whatever calls of publish_inbound, consume_inbound and
\* complete_inbound_turn were made, each accepted message is in exactly one
\* place: on the queue as itself, in one session buffer, in the
\* collected_messages of one merged message (queued or consumed), or among
\* the messages consume_inbound returned; and these places hold nothing else.
C36_InboundConservation ==
    /\ \A n \in 1..Len(turnLog) :
         LET m == turnLog[n]
         IN  Places(inbound, m) + MergedPlaces(inbound, m)
               + Sum([j \in 1..Len(KeyList) |-> Places(buffer[KeyList[j]], m)], Len(KeyList))
               + Places(cur, m) + MergedPlaces(cur, m) = 1
    /\ Size(inbound) + Size(cur)
         + Sum([j \in 1..Len(KeyList) |-> Len(buffer[KeyList[j]])], Len(KeyList))
       = Len(turnLog)
    /\ {KeyList[j] : j \in 1..Len(KeyList)} = SessionKeys
    /\ \A k \in SessionKeys : \A j \in 1..Len(buffer[k]) : ~IsMerged(buffer[k][j])

\* a message that stayed in the buffer of a session whose turn was never
\* completed has been consumed inside a later merged message, next to one
\* consumed as itself
C36_Witness ==
    /\ Len(turnLog) = MaxAccepted
    /\ inbound = <<>>
    /\ \A k \in SessionKeys : buffer[k] = <<>>
    /\ \E j \in 1..Len(cur) :
         /\ IsMerged(cur[j])
         /\ Len(cur[j].metadata.collected_messages) = 2
    /\ \E j \in 1..Len(cur) : ~IsMerged(cur[j]) /\ SessionKey(cur[j]) = "telegram:c2"

----------------------------------------------------------------------------
(* Further properties of the consolidation scheduler, checked under        *)
(* SpecCons                                                                *)

IsPrefix(msgs, more) ==
    Len(msgs) <= Len(more) /\ SubSeq(more, 1, Len(msgs)) = msgs

\* the scheduled run of key k suspended at its LLM call
RunAtCall(k) ==
    CHOOSE t \in BagToSet(tasks) : t.key = k /\ t.kind = "sched" /\ t.pc = "llm"

----------------------------------------------------------------------------
(* SpecStartMcp: AgentLoop.start_mcp and stop_mcp with several callers.    *)
(* Every server connects. In this specification mcp holds _mcp_started,    *)
(* the frames of the start_mcp calls, MCPManager._handles, the server      *)
(* tasks that run and the tool registry.                                   *)

MaxCallers == 2
MaxStartCalls == 3
MaxStopCalls == 2
Callers == 1..MaxCallers

\* AgentLoop.__init__ with mcp_servers: nothing started, nothing registered.
\* live[k] is the number of tasks of server k that run, registrations[k] the
\* number of register calls for its tools since the last unregister
NoMcpStarted ==
    [started |-> FALSE,
     frame |-> [c \in Callers |-> [pc |-> "idle", i |-> 0, all_tools |-> <<>>]],
     stop_pc |-> "idle", targets |-> <<>>,
     handles |-> <<>>,
     live |-> [k \in McpServers |-> 0],
     registered |-> {},
     registrations |-> [k \in McpServers |-> 0],
     starts |-> 0, stops |-> 0]

\* the number of entries of the list s that are k
CountOf(s, k) == Cardinality({j \in 1..Len(s) : s[j] = k})

\* the server a tool name belongs to
ServerOf(name) == CHOOSE k \in McpServers : \E j \in 1..Len(ServerTools(k)) : ServerTools(k)[j] = name

InitStartMcp ==
    /\ BusIdle
    /\ ConsIdle
    /\ now = 0
    /\ cfg = DefaultConfig
    /\ op = [name |-> "init", key |-> "", msg |-> NoArg]

\* the variables start_mcp and stop_mcp leave alone
notStartMcp == <<busSide, now, cfg, objs, cache, disk, turn, tasks, running, pending, served, asked,
                 history, longTerm, waiters, futures, sends, llm, agent>>

\* caller c calls start_mcp: it returns at once when _mcp_started is set,
\* else MCPManager.start creates the task of the first server and waits
StartMcpCalled(c) ==
    /\ mcp # NoManager
    /\ mcp.frame[c].pc = "idle"
    /\ mcp.starts < MaxStartCalls
    /\ IF mcp.started
       THEN /\ mcp' = [mcp EXCEPT !.starts = @ + 1]
            /\ op' = [name |-> "start_mcp_noop", key |-> "", msg |-> <<c>>]
       ELSE /\ mcp' = [mcp EXCEPT !.starts = @ + 1,
                                  !.frame[c] = [pc |-> "wait_ready", i |-> 1, all_tools |-> <<>>],
                                  !.live[1] = @ + 1]
            /\ op' = [name |-> "start_mcp_begin", key |-> "", msg |-> <<c>>]
    /\ UNCHANGED notStartMcp

\* the ready future caller c waits for is resolved: the handle is kept and
\* start goes to the next server, or returns, and then start_mcp registers
\* the tools and sets _mcp_started
StartMcpServerReady(c) ==
    /\ mcp # NoManager
    /\ mcp.frame[c].pc = "wait_ready"
    /\ LET f == mcp.frame[c]
           all_tools == f.all_tools \o ServerTools(f.i)
       IN  IF f.i < MaxServers
           THEN /\ mcp' = [mcp EXCEPT !.handles = Append(@, f.i),
                                      !.frame[c] = [pc |-> "wait_ready", i |-> f.i + 1,
                                                    all_tools |-> all_tools],
                                      !.live[f.i + 1] = @ + 1]
                /\ op' = [name |-> "server_ready", key |-> "", msg |-> <<c>>]
           ELSE /\ mcp' = [mcp EXCEPT
                             !.handles = Append(@, f.i),
                             !.frame[c] = [pc |-> "idle", i |-> 0, all_tools |-> <<>>],
                             !.registered = @ \cup {all_tools[j] : j \in 1..Len(all_tools)},
                             !.registrations =
                                 [k \in McpServers |->
                                    @[k] + Cardinality({j \in 1..Len(all_tools) :
                                                           ServerOf(all_tools[j]) = k})],
                             !.started = TRUE]
                /\ op' = [name |-> "start_mcp", key |-> "", msg |-> <<c>>]
    /\ UNCHANGED notStartMcp

\* stop_mcp is called: it returns at once when _mcp_started is not set, else
\* it unregisters the "mcp__" tools and MCPManager.stop sets the stop events
\* of the handles of that moment and waits for their tasks
StopMcpCalled ==
    /\ mcp # NoManager
    /\ mcp.stop_pc = "idle"
    /\ mcp.stops < MaxStopCalls
    /\ IF ~mcp.started
       THEN /\ mcp' = [mcp EXCEPT !.stops = @ + 1]
            /\ op' = [name |-> "stop_mcp_noop", key |-> "", msg |-> NoArg]
       ELSE /\ mcp' = [mcp EXCEPT !.stops = @ + 1,
                                  !.registered = {},
                                  !.registrations = [k \in McpServers |-> 0],
                                  !.stop_pc = "stopping",
                                  !.targets = mcp.handles]
            /\ op' = [name |-> "stop_mcp_begin", key |-> "", msg |-> NoArg]
    /\ UNCHANGED notStartMcp

\* the tasks MCPManager.stop waited for have ended: _handles is cleared and
\* stop_mcp resets _mcp_started and returns
StopMcpReturns ==
    /\ mcp # NoManager
    /\ mcp.stop_pc = "stopping"
    /\ mcp' = [mcp EXCEPT !.live = [k \in McpServers |-> @[k] - CountOf(mcp.targets, k)],
                          !.handles = <<>>,
                          !.targets = <<>>,
                          !.stop_pc = "idle",
                          !.started = FALSE]
    /\ op' = [name |-> "stop_mcp", key |-> "", msg |-> NoArg]
    /\ UNCHANGED notStartMcp

\* the AgentLoop is built with its MCP servers
AgentLoopInit ==
    /\ mcp = NoManager
    /\ mcp' = NoMcpStarted
    /\ op' = [name |-> "__init__", key |-> "", msg |-> NoArg]
    /\ UNCHANGED notStartMcp

NextStartMcp ==
    \/ AgentLoopInit
    \/ \E c \in Callers : StartMcpCalled(c)
    \/ \E c \in Callers : StartMcpServerReady(c)
    \/ StopMcpCalled
    \/ StopMcpReturns

SpecStartMcp == InitStartMcp /\ [][NextStartMcp]_vars

\* C39: no server has more than one task running and no server's tools are
\* registered more than once, also with overlapping callers of start_mcp;
\* and when stop_mcp has returned no "mcp__" tool is registered.
C39_ExternalToolStartupOnce ==
    mcp # NoManager
        => /\ \A k \in McpServers : mcp.live[k] <= 1
           /\ \A k \in McpServers : mcp.registrations[k] <= 1
           /\ op.name \in {"stop_mcp", "stop_mcp_noop"} => mcp.registered = {}

----------------------------------------------------------------------------
(* Further properties of the outbound waiters, checked under SpecAck *)

\* the futures made for request_id that are not done
PendingFor(request_id) ==
    {f \in 1..Len(futures) : futures[f].request_id = request_id /\ ~FutureDone(futures[f])}

\* C40: a future that is done is never changed again; a resolve for the
\* empty id or for an id without a registered waiter (a second resolve, a
\* resolve after the discard at a timeout) changes no waiter and no future;
\* a resolve leaves no waiter registered for its id; and at any time each
\* request id has at most one future that is not done, which is the one
\* registered for it or one a timeout is about to discard.
C40_WaiterResolvedAtMostOnce ==
    /\ [](\A r \in RequestIds :
            /\ Cardinality(PendingFor(r)) <= 1
            /\ waiters[r] # 0 => futures[waiters[r]].request_id = r
            /\ \A f \in PendingFor(r) : waiters[r] = f)
    /\ [][/\ \A f \in 1..Len(futures) : FutureDone(futures[f]) => futures'[f] = futures[f]
          /\ (op'.name \in {"resolve", "stray_resolve"} /\ op'.key = "")
                => waiters' = waiters /\ futures' = futures
          /\ (op'.name \in {"resolve", "stray_resolve"} /\ op'.key # "")
                => /\ waiters'[op'.key] = 0
                   /\ waiters[op'.key] = 0 => waiters' = waiters /\ futures' = futures
                   /\ \A r \in RequestIds : r # op'.key => waiters'[r] = waiters[r]]_vars

\* the acknowledgement of a message came after its send had timed out and
\* discarded the waiter, and then once more
C40_Witness ==
    /\ op.name = "stray_resolve"
    /\ op.key = "out_1"
    /\ op.msg[1].success
    /\ outbound = <<>>
    /\ sends = {}
    /\ futures = <<Cancelled(PendingFuture("out_1"))>>
    /\ waiters["out_1"] = 0

====
